---- MODULE Spec2Model ----
(***************************************************************************)
(* Verification model of the auto-industry gateway core:                   *)
(*   - DeviceManager  (packages/core device-manager, src/unnamed/part_012) *)
(*   - ConnectionPool (src/unnamed/part_015)                               *)
(*   - EventBus       (src/unnamed/part_014)                               *)
(*   - OpcuaAdapter   (src/packages/adapters/opcua/src/opcua-adapter.ts)   *)
(* The runtime is a single-threaded event loop: every action below is the  *)
(* code that runs between two suspension points (await) of one call.       *)
(***************************************************************************)
EXTENDS Integers, Sequences, FiniteSets, TLC

\* ------------------------------------------------------------------ bounds
MaxInFlight == 2    \* DeviceManager calls suspended at an await at one time
MaxAdapters == 2    \* adapter instances the factories create in one run
NPoolCallers == 3   \* concurrent users of the ConnectionPool
MaxRes == 2         \* resources the connectionFactory is asked for in one run
MaxListeners == 2   \* listeners registered on the EventBus at one time
MaxEventCount == 1  \* largest EventBus.eventCount explored
MaxReads == 2       \* poll reads of one address in flight at one time
MaxCallbacks == 2   \* callbacks attached to one address at one time
MaxItems == 2       \* monitored items created for one node id and still live
MaxCleanups == 2    \* ConnectionPool cleanup runs suspended at one time
MaxConnects == 2    \* PLC instances of an S7Adapter whose callback is outstanding
MaxOps == 2         \* read calls, and write calls, made on one adapter in one run

\* ------------------------------------------------------------ DeviceManager
DeviceIds == {"d1", "d2"}
Protocols == {"opcua", "mqtt"}
AdapterIds == 1..MaxAdapters
NoConfig == "none"
\* the device configurations the caller loads: one per deviceId
DeviceConfigs == {[deviceId |-> "d1", protocol |-> "opcua"],
                  [deviceId |-> "d2", protocol |-> "mqtt"]}
NoAdapter == 0

VARIABLES
  configs,     \* DeviceManager.configs : deviceId -> protocol of its config
  factories,   \* DeviceManager.factories : set of registered protocols
  adapters,    \* DeviceManager.adapters : deviceId -> adapter instance
  adStatus,    \* connectionStatus of every adapter instance created so far
  adProto,     \* protocol of every adapter instance
  adDev,       \* deviceId of the connectDevice call that created the instance
  discPending, \* per adapter: disconnectDevice calls suspended in its disconnect
  dmLast       \* what the last DeviceManager step did (observation record)

dmVars == <<configs, factories, adapters, adStatus, adProto, adDev, discPending, dmLast>>

VARIABLES
  dmStatuses   \* the DeviceStatus array the last getAllDeviceStatuses returned

listVars == <<dmStatuses>>

\* arguments of read / write / subscribe / unsubscribe
DmAddresses == {"a1", "a2"}
DmValues == {"v1"}
DmCallbacks == {"cb"}
\* how an adapter method called by the manager settles
AdapterOutcomes == {"ok", "errAdapter"}

VARIABLES
  configOrder, \* keys of DeviceManager.configs in Map (insertion) order
  caState,     \* connectAll: "idle" or "awaiting" (suspended in await connectDevice)
  caPos,       \* connectAll: entries of configs its iterator has passed
  caCur,       \* connectAll: deviceId of the iteration in progress
  caAd,        \* connectAll: adapter instance its connectDevice call created
  caSync,      \* connectAll: how its connectDevice call left its synchronous part
  caAttempt,   \* connectAll: per deviceId, how its connectDevice call settled
  caResults,   \* connectAll: the results Map
  daPending,   \* disconnectAll: adapters whose disconnectDevice call is pending
  daStarted,   \* disconnectAll: adapters registered when it was called
  daFailed,    \* disconnectAll: adapters whose disconnect rejected
  daSettled    \* disconnectAll: "none", "pending", "ok" or "errDisconnect"

caRest == <<caState, caCur, caAd, caSync, caAttempt, caResults>>
daVars == <<daPending, daStarted, daFailed, daSettled>>
bulkVars == <<configOrder, caPos, caRest, daVars>>

\* ----------------------------------------------------------- ConnectionPool
PoolCallers == 1..NPoolCallers
Res == 1..MaxRes
NoRes == 0
\* the pool configurations explored (constructor argument options)
PoolOptions == {[maxConnections |-> 1, minConnections |-> 0],
                [maxConnections |-> 1, minConnections |-> 1],
                [maxConnections |-> 2, minConnections |-> 1]}

VARIABLES
  maxConnections, \* options.maxConnections
  minConnections, \* options.minConnections
  pool,           \* keys of the pool Map; a smaller id was inserted earlier
  inUse,          \* PoolConnection.inUse of every resource
  inserted,       \* number of resources inserted into the Map so far
  waitQueue,      \* waitQueue: the queued acquire calls, oldest first
  ppc,            \* position of every caller's acquire call
  pcur,           \* poolConn local of the call / the resource the caller holds
  handed,         \* callers that got their resource from release()
  initState,      \* position of initialize()
  initPending     \* createConnection calls of initialize() still in the factory

poolVars == <<maxConnections, minConnections, pool, inUse, inserted, waitQueue,
              ppc, pcur, handed, initState, initPending>>

VARIABLES
  sdState,        \* shutdown(): "idle" (never called), "destroying" (suspended
                  \* in await destroy), or how the last call settled:
                  \* "resolved", "rejected"
  sdCur           \* shutdown(): the resource whose destroyer it awaits

shutdownVars == <<sdState, sdCur>>

Cleanups == 1..MaxCleanups

VARIABLES
  cleanupInterval, \* TRUE while the setInterval timer of cleanup is armed
  stale,           \* per resource: lastUsed is older than idleTimeoutMs
  clState,         \* per cleanup run: "idle" or "destroying"
  clCur,           \* per cleanup run: the resource whose destroyer it awaits
  clSnap           \* per cleanup run: the resources with
                   \* now - lastUsed > idleTimeoutMs for the run's own now

lastUsedVars == <<stale, clSnap>>
cleanupVars == <<cleanupInterval, lastUsedVars, clState, clCur>>

\* ----------------------------------------------------------------- EventBus
BusDevices == {"d1", "d2", "d1:a1"}   \* device ids; an id may contain ':'
Addresses == {"a1"}
Statuses == {"connected", "disconnected"}
Callbacks == {"k1", "k2", "kx"}   \* subscriber callbacks
Throwing == {"kx"}                \* the callbacks that throw when invoked

\* event names, built as the code builds them
DataAddressEvent(d, a) == "data:" \o d \o ":" \o a
DataDeviceEvent(d) == "data:" \o d
EventNames ==
  {"data", "error", "status"}
    \cup {DataDeviceEvent(d) : d \in BusDevices}
    \cup {DataAddressEvent(d, a) : d \in BusDevices, a \in Addresses}

VARIABLES
  listeners,  \* EventEmitter listener arrays: event name -> callbacks in order
  filters,    \* for every listener, at its position in the array of its event
              \* name: the deviceId and address its subscribe call was given
  eventCount, \* EventBus.eventCount
  busLast     \* what the last EventBus step did (observation record)

busVars == <<listeners, filters, eventCount, busLast>>

\* ------------------------------------------- OpcuaAdapter under the manager
NodeIds == {"n1", "n2", "n3"}   \* addresses (node ids) subscribed to

VARIABLES
  opcStatus,        \* OpcuaAdapter.connectionStatus
  opcClient,        \* OpcuaAdapter.client : "null" or "live"
  opcSession,       \* OpcuaAdapter.session : "null" or "live"
  opcSubscription,  \* OpcuaAdapter.subscription : "null" or "live"
  opcSubscriptions, \* keys of OpcuaAdapter.subscriptions (monitored items)
  opcItems,         \* per node id: monitored items created by monitor() and not
                    \* terminated, each with its 'changed' listener
  opcRegistered,    \* the adapter is the DeviceManager.adapters entry of its device
  opcCall,          \* the await at which the pending call is suspended
  opcArg,           \* address argument of the pending subscribe / unsubscribe
  opcLast           \* outcome of the last completed call

opcVars == <<opcStatus, opcClient, opcSession, opcSubscription, opcSubscriptions,
             opcItems, opcRegistered, opcCall, opcArg, opcLast>>

\* ---------------------------------------------------------------- S7Adapter
PollAddresses == {"t1", "t2"}    \* addresses polled
PollCallbacks == {"c1", "c2"}    \* data callbacks

VARIABLES
  s7Subscriptions,         \* keys of S7Adapter.subscriptions: addresses with a timer
  s7SubscriptionCallbacks, \* S7Adapter.subscriptionCallbacks: address -> callbacks
                           \* (an address without an entry has no callbacks)
  s7Reads,                 \* per address: timer ticks suspended in await this.read
  s7Started,               \* per address: for every suspended tick, the callbacks
                           \* the address had when the tick started
  s7Last                   \* what the last S7Adapter step did (observation record)

s7Vars == <<s7Subscriptions, s7SubscriptionCallbacks, s7Reads, s7Started, s7Last>>

\* S7Adapter: connection state and metrics
VARIABLES
  s7ConnectionStatus, \* S7Adapter.connectionStatus
  s7Plc,              \* S7Adapter.plc: "null" or "plc"
  s7ConnectCall,      \* the latest connect() call: "none", "waiting" (in its
                      \* wait promise), "resolved", "rejected"
  s7CurCallback,      \* the initiateConnection callback of this.plc is outstanding
  s7OldCallbacks,     \* outstanding callbacks of PLC instances that were replaced
  s7LinkUp,           \* the transport of this.plc is established and live
  s7ReadCalls,        \* read() calls made
  s7ReadWaiting,      \* read() calls suspended in plc.readAllItems
  s7ReadCount,        \* metrics.readCount
  s7WriteCalls,       \* write() calls made
  s7WriteWaiting,     \* write() calls suspended in plc.writeItems
  s7WriteCount        \* metrics.writeCount

s7ConnVars == <<s7ConnectionStatus, s7Plc, s7ConnectCall, s7CurCallback,
                s7OldCallbacks, s7LinkUp>>
s7MetricVars == <<s7ReadCalls, s7ReadWaiting, s7ReadCount,
                  s7WriteCalls, s7WriteWaiting, s7WriteCount>>

\* -------------------------------------------------------------- MqttAdapter
Topics == {"p1", "p2"}
MaxMqCallbacks == 2        \* callbacks in the subscription entry of one topic
MaxRetries == 4            \* retries of the mqtt client that are followed
\* reconnectPeriod of the options connect() gives to the mqtt client
ReconnectPeriod == 1000
\* the reconnect policy of the device configuration
ReconnectConfig ==
  [enabled |-> TRUE, maxAttempts |-> 3, initialDelayMs |-> 100,
   maxDelayMs |-> 30000, backoffMultiplier |-> 2]

VARIABLES
  mqConnectionStatus, \* MqttAdapter.connectionStatus
  mqClient,           \* MqttAdapter.client: "null" or "client"
  mqClientConnected,  \* client.connected of the mqtt client
  mqHandlers,         \* the message/error/close/reconnect handlers are installed
  mqCall,             \* the call suspended at an await: "none", "connect",
                      \* "subscribe", "read" (the subscribe of a read), "end"
  mqArg,              \* the topic of the suspended subscribe
  mqSubscriptions,    \* keys of MqttAdapter.subscriptions
  mqBroker,           \* topics the client asked the broker to deliver
  mqCachedValues,     \* keys of MqttAdapter.cachedValues
  mqCallbacks,        \* MqttAdapter.subscriptions: per topic the callbacks of
                      \* its entry in order: "cb" (of a subscribe call), "temp"
                      \* (tempCallback of a read that is waiting), "done"
                      \* (tempCallback of a read that has settled)
  mqRetryDelays,      \* the delays (ms) after which the client retried to connect
                      \* since it was created or was last connected
  mqLast              \* what the last MqttAdapter step did (observation record)

mqVars == <<mqConnectionStatus, mqClient, mqClientConnected, mqHandlers, mqCall,
            mqArg, mqSubscriptions, mqBroker, mqCachedValues, mqCallbacks,
            mqRetryDelays, mqLast>>

adapterVars == <<s7ConnVars, s7MetricVars, mqVars>>

vars == <<dmVars, listVars, bulkVars, poolVars, shutdownVars, cleanupVars, busVars, opcVars, s7Vars, adapterVars>>

\* the variables of the other components, which a component's steps leave alone
mgrFrame == <<poolVars, shutdownVars, cleanupVars, busVars, opcVars, s7Vars, adapterVars>>
mgrOthers == <<mgrFrame, listVars>>
dmOthers == <<bulkVars, mgrOthers>>
poolFrame == <<dmVars, listVars, bulkVars, busVars, opcVars, s7Vars, adapterVars>>
poolOthers == <<poolFrame, shutdownVars, cleanupVars>>
busOthers == <<dmVars, listVars, bulkVars, poolVars, shutdownVars, cleanupVars, opcVars, s7Vars, adapterVars>>
opcOthers == <<dmVars, listVars, bulkVars, poolVars, shutdownVars, cleanupVars, busVars, s7Vars, adapterVars>>
s7Frame == <<dmVars, listVars, bulkVars, poolVars, shutdownVars, cleanupVars, busVars, opcVars>>
s7Others == <<s7Frame, adapterVars>>
s7ConnOthers == <<s7Frame, s7Vars, mqVars>>
mqOthers == <<s7Frame, s7Vars, s7ConnVars, s7MetricVars>>

NoEvents == << >>

DmObs(op, d, out, ad, calls, emitted) ==
  [op |-> op, d |-> d, out |-> out, ad |-> ad,
   calls |-> calls, emitted |-> emitted,
   args |-> << >>, adArgs |-> << >>, adOut |-> "none"]

isConnected(a) == adStatus[a] = "connected"

\* connectDevice calls suspended in adapter.connect for device d: the
\* adapter of such a call is in state 'connecting' and referenced by nothing else.
ConnectsInFlight(d) == {a \in AdapterIds : adStatus[a] = "connecting" /\ adDev[a] = d}

RECURSIVE SumDisc(_)
SumDisc(S) ==
  IF S = {} THEN 0
  ELSE LET a == CHOOSE x \in S : TRUE IN discPending[a] + SumDisc(S \ {a})

InFlight ==
  Cardinality({a \in AdapterIds : adStatus[a] = "connecting"}) + SumDisc(AdapterIds)
    + Cardinality(daPending)

FreshAdapter ==
  CHOOSE a \in AdapterIds :
    /\ adStatus[a] = "absent"
    /\ \A b \in AdapterIds : b < a => adStatus[b] # "absent"

DmInit ==
  /\ configs = [d \in DeviceIds |-> NoConfig]
  /\ factories = {}
  /\ adapters = [d \in DeviceIds |-> NoAdapter]
  /\ adStatus = [a \in AdapterIds |-> "absent"]
  /\ adProto = [a \in AdapterIds |-> "none"]
  /\ adDev = [a \in AdapterIds |-> "none"]
  /\ discPending = [a \in AdapterIds |-> 0]
  /\ dmLast = DmObs("init", "none", "none", NoAdapter, {}, NoEvents)
  /\ configOrder = << >>
  /\ dmStatuses = {}
  /\ caState = "idle"
  /\ caPos = 0
  /\ caCur = "none"
  /\ caAd = NoAdapter
  /\ caSync = "none"
  /\ caAttempt = [d \in DeviceIds |-> "none"]
  /\ caResults = [d \in DeviceIds |-> "none"]
  /\ daPending = {}
  /\ daStarted = {}
  /\ daFailed = {}
  /\ daSettled = "none"

registerProtocol(p) ==
  /\ factories' = factories \cup {p}
  /\ dmLast' = DmObs("registerProtocol", "none", "ok", NoAdapter, {}, NoEvents)
  /\ UNCHANGED <<configs, adapters, adStatus, adProto, adDev, discPending>>
  /\ UNCHANGED dmOthers

\* Map.set: a new key goes to the end of the Map, an existing key keeps its place
addDeviceConfig(config) ==
  /\ config.deviceId # ""
  /\ configs' = [configs EXCEPT ![config.deviceId] = config.protocol]
  /\ configOrder' = IF configs[config.deviceId] = NoConfig
                    THEN Append(configOrder, config.deviceId)
                    ELSE configOrder
  /\ dmLast' = DmObs("addDeviceConfig", "none", "ok", NoAdapter, {}, NoEvents)
  /\ UNCHANGED <<factories, adapters, adStatus, adProto, adDev, discPending>>
  /\ UNCHANGED <<caPos, caRest, daVars>>
  /\ UNCHANGED mgrOthers

\* Map.delete: the entry leaves the Map; the live iterator of a running
\* connectAll that has passed the entry stays where it is in the Map.
removeDeviceConfig(d) ==
  /\ configs' = [configs EXCEPT ![d] = NoConfig]
  /\ configOrder' = SelectSeq(configOrder, LAMBDA x : x # d)
  /\ caPos' = IF \E i \in 1..caPos : configOrder[i] = d THEN caPos - 1 ELSE caPos
  /\ dmLast' = DmObs("removeDeviceConfig", "none", "ok", NoAdapter, {}, NoEvents)
  /\ UNCHANGED <<factories, adapters, adStatus, adProto, adDev, discPending>>
  /\ UNCHANGED <<caRest, daVars>>
  /\ UNCHANGED mgrOthers

\* The code of connectDevice up to its first suspension point (await
\* adapter.connect), or to its return or throw when it does not get there.
ConnectDeviceCall(d) ==
  /\ IF configs[d] = NoConfig
     THEN /\ dmLast' = DmObs("connectDevice", d, "errNoConfig", NoAdapter, {}, NoEvents)
          /\ UNCHANGED <<adStatus, adProto, adDev>>
     ELSE IF adapters[d] # NoAdapter /\ isConnected(adapters[d])
     THEN /\ dmLast' = DmObs("connectDevice", d, "existing", adapters[d],
                             {"isConnected"}, NoEvents)
          /\ UNCHANGED <<adStatus, adProto, adDev>>
     ELSE IF configs[d] \notin factories
     THEN /\ dmLast' = DmObs("connectDevice", d, "errNoProtocol", NoAdapter,
                             IF adapters[d] # NoAdapter THEN {"isConnected"} ELSE {},
                             NoEvents)
          /\ UNCHANGED <<adStatus, adProto, adDev>>
     ELSE /\ InFlight < MaxInFlight
          /\ \E a \in AdapterIds : adStatus[a] = "absent"
          /\ adStatus' = [adStatus EXCEPT ![FreshAdapter] = "connecting"]
          /\ adProto' = [adProto EXCEPT ![FreshAdapter] = configs[d]]
          /\ adDev' = [adDev EXCEPT ![FreshAdapter] = d]
          /\ dmLast' = DmObs("connectDevice", d, "pending", NoAdapter,
                             {"factory", "connect"}
                               \cup (IF adapters[d] # NoAdapter THEN {"isConnected"} ELSE {}),
                             NoEvents)
  /\ UNCHANGED <<configs, factories, adapters, discPending>>

\* Variant of connectDevice that lacks the "already connected" early return.
connectDevice_noExistingCheck(d) ==
  /\ IF configs[d] = NoConfig
     THEN /\ dmLast' = DmObs("connectDevice", d, "errNoConfig", NoAdapter, {}, NoEvents)
          /\ UNCHANGED <<adStatus, adProto, adDev>>
     ELSE IF configs[d] \notin factories
     THEN /\ dmLast' = DmObs("connectDevice", d, "errNoProtocol", NoAdapter, {}, NoEvents)
          /\ UNCHANGED <<adStatus, adProto, adDev>>
     ELSE /\ InFlight < MaxInFlight
          /\ \E a \in AdapterIds : adStatus[a] = "absent"
          /\ adStatus' = [adStatus EXCEPT ![FreshAdapter] = "connecting"]
          /\ adProto' = [adProto EXCEPT ![FreshAdapter] = configs[d]]
          /\ adDev' = [adDev EXCEPT ![FreshAdapter] = d]
          /\ dmLast' = DmObs("connectDevice", d, "pending", NoAdapter,
                             {"factory", "connect"}, NoEvents)
  /\ UNCHANGED <<configs, factories, adapters, discPending>>
  /\ UNCHANGED dmOthers

\* connectDevice called by a user of the manager.
connectDevice(d) ==
  /\ ConnectDeviceCall(d)
  /\ UNCHANGED dmOthers

\* adapter.connect resolved: the rest of connectDevice runs to its return.
connectDevice_resolved(a) ==
  /\ adStatus[a] = "connecting"
  /\ adStatus' = [adStatus EXCEPT ![a] = "connected"]
  /\ adapters' = [adapters EXCEPT ![adDev[a]] = a]
  /\ dmLast' = DmObs("connectDevice_resolved", adDev[a], "ok", a, {"onError"},
                     <<[deviceId |-> adDev[a], status |-> "connected"]>>)
  /\ UNCHANGED <<configs, factories, adProto, adDev, discPending>>
  /\ UNCHANGED dmOthers

\* adapter.connect rejected: connectDevice rethrows, nothing is stored.
connectDevice_rejected(a) ==
  /\ adStatus[a] = "connecting"
  /\ adStatus' = [adStatus EXCEPT ![a] = "error"]
  /\ dmLast' = DmObs("connectDevice_rejected", adDev[a], "errConnect", NoAdapter, {}, NoEvents)
  /\ UNCHANGED <<configs, factories, adapters, adProto, adDev, discPending>>
  /\ UNCHANGED dmOthers

\* Variant of disconnectDevice that emits the status outside the adapter test.
disconnectDevice_alwaysEmits(d) ==
  /\ IF adapters[d] = NoAdapter
     THEN /\ dmLast' = DmObs("disconnectDevice", d, "ok", NoAdapter, {},
                             <<[deviceId |-> d, status |-> "disconnected"]>>)
          /\ UNCHANGED discPending
     ELSE /\ InFlight < MaxInFlight
          /\ discPending' = [discPending EXCEPT ![adapters[d]] = @ + 1]
          /\ dmLast' = DmObs("disconnectDevice", d, "pending", NoAdapter,
                             {"disconnect"}, NoEvents)
  /\ UNCHANGED <<configs, factories, adapters, adStatus, adProto, adDev>>
  /\ UNCHANGED dmOthers

\* disconnectDevice up to its suspension point (await adapter.disconnect).
disconnectDevice(d) ==
  /\ IF adapters[d] = NoAdapter
     THEN /\ dmLast' = DmObs("disconnectDevice", d, "ok", NoAdapter, {}, NoEvents)
          /\ UNCHANGED discPending
     ELSE /\ InFlight < MaxInFlight
          /\ discPending' = [discPending EXCEPT ![adapters[d]] = @ + 1]
          /\ dmLast' = DmObs("disconnectDevice", d, "pending", NoAdapter,
                             {"disconnect"}, NoEvents)
  /\ UNCHANGED <<configs, factories, adapters, adStatus, adProto, adDev>>
  /\ UNCHANGED dmOthers

\* adapter.disconnect resolved: the entry is deleted and the status emitted.
disconnectDevice_resolved(a) ==
  /\ discPending[a] > 0
  /\ discPending' = [discPending EXCEPT ![a] = @ - 1]
  /\ adStatus' = [adStatus EXCEPT ![a] = "disconnected"]
  /\ adapters' = [adapters EXCEPT ![adDev[a]] = NoAdapter]
  /\ dmLast' = DmObs("disconnectDevice_resolved", adDev[a], "ok", NoAdapter, {},
                     <<[deviceId |-> adDev[a], status |-> "disconnected"]>>)
  /\ UNCHANGED <<configs, factories, adProto, adDev>>
  /\ UNCHANGED dmOthers

\* adapter.disconnect rejected (OpcuaAdapter.disconnect awaits terminate,
\* close and disconnect of its library objects outside any try block).
disconnectDevice_rejected(a) ==
  /\ discPending[a] > 0
  /\ adProto[a] = "opcua"
  /\ discPending' = [discPending EXCEPT ![a] = @ - 1]
  /\ dmLast' = DmObs("disconnectDevice_rejected", adDev[a], "errDisconnect", NoAdapter,
                     {}, NoEvents)
  /\ UNCHANGED <<configs, factories, adapters, adStatus, adProto, adDev>>
  /\ UNCHANGED dmOthers

\* The MQTT client's 'close' handler: the transport dropped.
transportClose(a) ==
  /\ adProto[a] = "mqtt"
  /\ adStatus[a] = "connected"
  /\ adStatus' = [adStatus EXCEPT ![a] = "disconnected"]
  /\ dmLast' = DmObs("transportClose", "none", "ok", NoAdapter, {}, NoEvents)
  /\ UNCHANGED <<configs, factories, adapters, adProto, adDev, discPending>>
  /\ UNCHANGED dmOthers

\* read / write / subscribe / unsubscribe: look the adapter up, throw if
\* there is none, else return the promise of the adapter method.
Delegate(op, d, args, method, adArgs) ==
  /\ IF adapters[d] = NoAdapter
     THEN dmLast' = [DmObs(op, d, "errDeviceNotConnected", NoAdapter, {}, NoEvents)
                       EXCEPT !.args = args]
     ELSE \E outcome \in AdapterOutcomes :
            dmLast' = [DmObs(op, d, outcome, adapters[d], {method}, NoEvents)
                         EXCEPT !.args = args, !.adArgs = adArgs, !.adOut = outcome]
  /\ UNCHANGED <<configs, factories, adapters, adStatus, adProto, adDev, discPending>>

read(d, address) ==
  /\ Delegate("read", d, <<address>>, "read", <<address>>)
  /\ UNCHANGED dmOthers

\* Variant of write that calls the adapter's read method instead.
write_callsRead(d, address, value) ==
  /\ Delegate("write", d, <<address, value>>, "read", <<address>>)
  /\ UNCHANGED dmOthers

write(d, address, value) ==
  /\ Delegate("write", d, <<address, value>>, "write", <<address, value>>)
  /\ UNCHANGED dmOthers

subscribe(d, address, callback) ==
  /\ Delegate("subscribe", d, <<address, callback>>, "subscribe", <<address, callback>>)
  /\ UNCHANGED dmOthers

unsubscribe(d, address) ==
  /\ Delegate("unsubscribe", d, <<address>>, "unsubscribe", <<address>>)
  /\ UNCHANGED dmOthers

\* the manager's users in the delegation runs: they register, configure,
\* connect and disconnect devices and call the four delegating methods
\* getDeviceStatus() of adapter instance a: the deviceId of the config its
\* connect was given, and its connectionStatus
getDeviceStatus(a) == [deviceId |-> adDev[a], status |-> adStatus[a]]

\* getAllDeviceStatuses(), the result of the device_list tool: the status of
\* every value of the adapters map
getAllDeviceStatuses ==
  /\ dmStatuses' = {getDeviceStatus(adapters[d]) :
                      d \in {e \in DeviceIds : adapters[e] # NoAdapter}}
  /\ dmLast' = DmObs("getAllDeviceStatuses", "none", "ok", NoAdapter, {}, NoEvents)
  /\ UNCHANGED <<configs, factories, adapters, adStatus, adProto, adDev, discPending>>
  /\ UNCHANGED <<bulkVars, mgrFrame>>

ListNext ==
  \/ \E p \in Protocols : registerProtocol(p)
  \/ \E config \in DeviceConfigs : addDeviceConfig(config)
  \/ \E d \in DeviceIds : connectDevice(d)
  \/ \E a \in AdapterIds : connectDevice_resolved(a)
  \/ \E a \in AdapterIds : connectDevice_rejected(a)
  \/ \E d \in DeviceIds : disconnectDevice(d)
  \/ \E a \in AdapterIds : disconnectDevice_resolved(a)
  \/ getAllDeviceStatuses

DelegateNext ==
  \/ \E p \in Protocols : registerProtocol(p)
  \/ \E config \in DeviceConfigs : addDeviceConfig(config)
  \/ \E d \in DeviceIds : connectDevice(d)
  \/ \E a \in AdapterIds : connectDevice_resolved(a)
  \/ \E a \in AdapterIds : connectDevice_rejected(a)
  \/ \E d \in DeviceIds : disconnectDevice(d)
  \/ \E a \in AdapterIds : disconnectDevice_resolved(a)
  \/ \E d \in DeviceIds, address \in DmAddresses : read(d, address)
  \/ \E d \in DeviceIds, address \in DmAddresses, value \in DmValues :
        write(d, address, value)
  \/ \E d \in DeviceIds, address \in DmAddresses, callback \in DmCallbacks :
        subscribe(d, address, callback)
  \/ \E d \in DeviceIds, address \in DmAddresses : unsubscribe(d, address)

\* ---------------------------------------------- connectAll / disconnectAll
\* The loop head of connectAll: take the next entry of configs, call
\* connectDevice for it and suspend in the await; when the iterator is at
\* the end of the Map, return results.
CaIterate(pos, attempts, results) ==
  /\ IF pos >= Len(configOrder)
     THEN /\ caState' = "idle"
          /\ caPos' = 0
          /\ caCur' = "none"
          /\ caAd' = NoAdapter
          /\ caSync' = "none"
          /\ dmLast' = DmObs("connectAll", "none", "returned", NoAdapter, {}, NoEvents)
          /\ UNCHANGED <<configs, factories, adapters, adStatus, adProto, adDev,
                         discPending>>
     ELSE /\ ConnectDeviceCall(configOrder[pos + 1])
          /\ caState' = "awaiting"
          /\ caPos' = pos + 1
          /\ caCur' = configOrder[pos + 1]
          /\ caSync' = dmLast'.out
          /\ caAd' = IF dmLast'.out = "pending" THEN FreshAdapter ELSE NoAdapter
  /\ caAttempt' = attempts
  /\ caResults' = results

connectAll ==
  /\ caState = "idle"
  /\ CaIterate(0, [d \in DeviceIds |-> "none"], [d \in DeviceIds |-> "none"])
  /\ UNCHANGED <<configOrder, daVars>>
  /\ UNCHANGED mgrOthers

\* how the connectDevice call that connectAll awaits has settled
CaSettled ==
  IF caSync # "pending" THEN caSync
  ELSE IF adStatus[caAd] = "error" THEN "errConnect" ELSE "ok"

\* Variant of connectAll_resumed without the try/catch around the await:
\* the first failing device ends the loop.
connectAll_resumed_noCatch ==
  /\ caState = "awaiting"
  /\ caSync = "pending" => adStatus[caAd] # "connecting"
  /\ IF CaSettled \in {"ok", "existing"}
     THEN CaIterate(caPos, [caAttempt EXCEPT ![caCur] = CaSettled],
                    [caResults EXCEPT ![caCur] = "null"])
     ELSE CaIterate(Len(configOrder), [caAttempt EXCEPT ![caCur] = CaSettled],
                    [caResults EXCEPT ![caCur] = CaSettled])
  /\ UNCHANGED <<configOrder, daVars>>
  /\ UNCHANGED mgrOthers

\* the awaited connectDevice call has settled: connectAll stores null or the
\* caught error for the device and goes on with the next entry
connectAll_resumed ==
  /\ caState = "awaiting"
  /\ caSync = "pending" => adStatus[caAd] # "connecting"
  /\ CaIterate(caPos, [caAttempt EXCEPT ![caCur] = CaSettled],
               [caResults EXCEPT ![caCur] =
                  IF CaSettled \in {"ok", "existing"} THEN "null" ELSE CaSettled])
  /\ UNCHANGED <<configOrder, daVars>>
  /\ UNCHANGED mgrOthers

\* the adapters in the registry (Array.from(this.adapters.keys()))
Registered == {adapters[d] : d \in {e \in DeviceIds : adapters[e] # NoAdapter}}

\* disconnectAll: calls disconnectDevice for every key, each of which runs
\* up to its await adapter.disconnect, then awaits Promise.all of them.
disconnectAll ==
  /\ daPending = {}
  /\ InFlight + Cardinality(Registered) <= MaxInFlight
  /\ daPending' = Registered
  /\ daStarted' = Registered
  /\ daFailed' = {}
  /\ daSettled' = IF Registered = {} THEN "ok" ELSE "pending"
  /\ dmLast' = DmObs("disconnectAll", "none", daSettled', NoAdapter,
                     IF Registered = {} THEN {} ELSE {"disconnect"}, NoEvents)
  /\ UNCHANGED <<configs, factories, adapters, adStatus, adProto, adDev, discPending>>
  /\ UNCHANGED <<configOrder, caPos, caRest>>
  /\ UNCHANGED mgrOthers

\* adapter.disconnect of one of the disconnectDevice calls resolved: that call
\* deletes the entry and emits; Promise.all resolves when it was the last one.
disconnectAll_resolved(a) ==
  /\ a \in daPending
  /\ daPending' = daPending \ {a}
  /\ adStatus' = [adStatus EXCEPT ![a] = "disconnected"]
  /\ adapters' = [adapters EXCEPT ![adDev[a]] = NoAdapter]
  /\ daSettled' = IF daSettled = "pending" /\ daPending' = {} THEN "ok" ELSE daSettled
  /\ dmLast' = DmObs(IF daSettled' # daSettled THEN "disconnectAll"
                     ELSE "disconnectDevice_resolved",
                     adDev[a], "ok", NoAdapter, {},
                     <<[deviceId |-> adDev[a], status |-> "disconnected"]>>)
  /\ UNCHANGED <<configs, factories, adProto, adDev, discPending>>
  /\ UNCHANGED <<configOrder, caPos, caRest, daStarted, daFailed>>
  /\ UNCHANGED mgrOthers

\* adapter.disconnect of one of the calls rejected: that disconnectDevice
\* call rejects, and Promise.all rejects with the first such error while the
\* other calls are still running.
disconnectAll_rejected(a) ==
  /\ a \in daPending
  /\ adProto[a] = "opcua"
  /\ daPending' = daPending \ {a}
  /\ daFailed' = daFailed \cup {a}
  /\ daSettled' = IF daSettled = "pending" THEN "errDisconnect" ELSE daSettled
  /\ dmLast' = DmObs(IF daSettled = "pending" THEN "disconnectAll"
                     ELSE "disconnectDevice_rejected",
                     adDev[a], "errDisconnect", NoAdapter, {}, NoEvents)
  /\ UNCHANGED <<configs, factories, adapters, adStatus, adProto, adDev, discPending>>
  /\ UNCHANGED <<configOrder, caPos, caRest, daStarted>>
  /\ UNCHANGED mgrOthers

\* the manager's users in the connectAll / disconnectAll runs: devices are
\* connected by connectAll only, configs change and transports drop meanwhile
BulkNext ==
  \/ \E p \in Protocols : registerProtocol(p)
  \/ \E config \in DeviceConfigs : addDeviceConfig(config)
  \/ \E d \in DeviceIds : removeDeviceConfig(d)
  \/ \E a \in AdapterIds : connectDevice_resolved(a)
  \/ \E a \in AdapterIds : connectDevice_rejected(a)
  \/ \E a \in AdapterIds : transportClose(a)
  \/ connectAll
  \/ connectAll_resumed
  \/ disconnectAll
  \/ \E a \in AdapterIds : disconnectAll_resolved(a)
  \/ \E a \in AdapterIds : disconnectAll_rejected(a)

DmNext ==
  \/ \E p \in Protocols : registerProtocol(p)
  \/ \E config \in DeviceConfigs : addDeviceConfig(config)
  \/ \E d \in DeviceIds : removeDeviceConfig(d)
  \/ \E d \in DeviceIds : connectDevice(d)
  \/ \E a \in AdapterIds : connectDevice_resolved(a)
  \/ \E a \in AdapterIds : connectDevice_rejected(a)
  \/ \E d \in DeviceIds : disconnectDevice(d)
  \/ \E a \in AdapterIds : disconnectDevice_resolved(a)
  \/ \E a \in AdapterIds : disconnectDevice_rejected(a)
  \/ \E a \in AdapterIds : transportClose(a)

\* ----------------------------------------------------------- ConnectionPool
PoolConstructed(options) ==
  /\ maxConnections = options.maxConnections
  /\ minConnections = options.minConnections
  /\ pool = {}
  /\ inUse = [r \in Res |-> FALSE]
  /\ inserted = 0
  /\ waitQueue = << >>
  /\ ppc = [c \in PoolCallers |-> "idle"]
  /\ pcur = [c \in PoolCallers |-> NoRes]
  /\ handed = {}
  /\ initState = "new"
  /\ initPending = 0
  /\ sdState = "idle"
  /\ sdCur = NoRes
  /\ cleanupInterval = FALSE
  /\ stale = [r \in Res |-> FALSE]
  /\ clState = [k \in Cleanups |-> "idle"]
  /\ clCur = [k \in Cleanups |-> NoRes]
  /\ clSnap = [k \in Cleanups |-> {}]

PoolInit == \E options \in PoolOptions : PoolConstructed(options)

\* the pool as constructed when another component is explored
PoolDefault == PoolConstructed([maxConnections |-> 1, minConnections |-> 1])

\* factory calls that have not returned yet
FactoryPending ==
  initPending + Cardinality({c \in PoolCallers : ppc[c] = "creating"})

\* The next entry the Map iterator of acquire yields after entry pos that
\* is not in use (entries in use are skipped by the loop body), or NoRes.
NextIdle(p, pos) ==
  IF \E r \in p : r > pos /\ ~inUse[r]
  THEN CHOOSE r \in p : /\ r > pos /\ ~inUse[r]
                        /\ \A q \in p : (q > pos /\ ~inUse[q]) => r <= q
  ELSE NoRes

\* acquire from the Map iterator's position pos, over the Map contents p,
\* up to the next suspension point: the validator of the next idle entry,
\* the factory of createConnection, or the wait queue.
Scan(c, p, pos) ==
  IF NextIdle(p, pos) # NoRes
  THEN /\ ppc' = [ppc EXCEPT ![c] = "validating"]
       /\ pcur' = [pcur EXCEPT ![c] = NextIdle(p, pos)]
       /\ UNCHANGED waitQueue
  ELSE IF Cardinality(p) < maxConnections
  THEN /\ inserted + FactoryPending < MaxRes
       /\ ppc' = [ppc EXCEPT ![c] = "creating"]
       /\ pcur' = [pcur EXCEPT ![c] = NoRes]
       /\ UNCHANGED waitQueue
  ELSE /\ ppc' = [ppc EXCEPT ![c] = "waiting"]
       /\ pcur' = [pcur EXCEPT ![c] = NoRes]
       /\ waitQueue' = Append(waitQueue, c)

initialize ==
  /\ initState = "new"
  /\ inserted + FactoryPending + minConnections <= MaxRes
  /\ initPending' = minConnections
  /\ initState' = IF minConnections = 0 THEN "done" ELSE "running"
  /\ cleanupInterval' = IF minConnections = 0 THEN TRUE ELSE cleanupInterval
  /\ UNCHANGED <<maxConnections, minConnections, pool, inUse, inserted, waitQueue,
                 ppc, pcur, handed>>
  /\ UNCHANGED <<poolFrame, shutdownVars, lastUsedVars, clState, clCur>>

\* createConnection of initialize() resumes after the factory returned.
initialize_created ==
  /\ initPending > 0
  /\ pool' = pool \cup {inserted + 1}
  /\ inserted' = inserted + 1
  /\ inUse' = [inUse EXCEPT ![inserted + 1] = FALSE]
  /\ initPending' = initPending - 1
  /\ initState' = IF initPending = 1 THEN "done" ELSE initState
  /\ cleanupInterval' = IF initPending = 1 THEN TRUE ELSE cleanupInterval
  /\ UNCHANGED <<maxConnections, minConnections, waitQueue, ppc, pcur, handed>>
  /\ UNCHANGED <<poolFrame, shutdownVars, lastUsedVars, clState, clCur>>

acquire(c) ==
  /\ ppc[c] = "idle"
  /\ Scan(c, pool, 0)
  /\ UNCHANGED <<maxConnections, minConnections, pool, inUse, inserted, handed,
                 initState, initPending>>
  /\ UNCHANGED poolOthers

\* poolConn.lastUsed = new Date(): the resource is no longer idle for
\* longer than idleTimeoutMs, for the clock and for the now of any cleanup
\* run that has started
Touch(r) ==
  /\ stale' = [stale EXCEPT ![r] = FALSE]
  /\ clSnap' = [k \in Cleanups |-> clSnap[k] \ {r}]

\* the validator returned isValid: hand the resource out, or go on scanning
validator_returned(c, isValid) ==
  /\ ppc[c] = "validating"
  /\ IF isValid
     THEN /\ inUse' = [inUse EXCEPT ![pcur[c]] = TRUE]
          /\ ppc' = [ppc EXCEPT ![c] = "holding"]
          /\ Touch(pcur[c])
          /\ UNCHANGED <<pcur, waitQueue>>
     ELSE /\ Scan(c, pool, pcur[c])
          /\ UNCHANGED <<inUse, lastUsedVars>>
  /\ UNCHANGED <<maxConnections, minConnections, pool, inserted, handed,
                 initState, initPending>>
  /\ UNCHANGED <<poolFrame, shutdownVars, cleanupInterval, clState, clCur>>

\* the validator threw: the entry is deleted and the scan goes on
validator_threw(c) ==
  /\ ppc[c] = "validating"
  /\ pool' = pool \ {pcur[c]}
  /\ Scan(c, pool \ {pcur[c]}, pcur[c])
  /\ UNCHANGED <<maxConnections, minConnections, inUse, inserted, handed,
                 initState, initPending>>
  /\ UNCHANGED poolOthers

\* createConnection of acquire resumes after the factory returned: the new
\* entry is stored with inUse = false and the promise of createConnection
\* resolves; acquire itself resumes in a later microtask.
createConnection_resumed(c) ==
  /\ ppc[c] = "creating"
  /\ pool' = pool \cup {inserted + 1}
  /\ inserted' = inserted + 1
  /\ inUse' = [inUse EXCEPT ![inserted + 1] = FALSE]
  /\ ppc' = [ppc EXCEPT ![c] = "created"]
  /\ pcur' = [pcur EXCEPT ![c] = inserted + 1]
  /\ UNCHANGED <<maxConnections, minConnections, waitQueue, handed, initState, initPending>>
  /\ UNCHANGED poolOthers

\* the factory rejected: acquire rejects
createConnection_failed(c) ==
  /\ ppc[c] = "creating"
  /\ ppc' = [ppc EXCEPT ![c] = "idle"]
  /\ UNCHANGED <<maxConnections, minConnections, pool, inUse, inserted, waitQueue,
                 pcur, handed, initState, initPending>>
  /\ UNCHANGED poolOthers

\* acquire resumes after await createConnection()
acquire_created(c) ==
  /\ ppc[c] = "created"
  /\ inUse' = [inUse EXCEPT ![pcur[c]] = TRUE]
  /\ ppc' = [ppc EXCEPT ![c] = "holding"]
  /\ UNCHANGED <<maxConnections, minConnections, pool, inserted, waitQueue, pcur,
                 handed, initState, initPending>>
  /\ UNCHANGED poolOthers

\* Variant of the acquire timeout that rejects the caller without taking
\* its entry out of the wait queue.
acquire_timeout_keepsEntry(c) ==
  /\ ppc[c] = "waiting"
  /\ \E i \in 1..Len(waitQueue) : waitQueue[i] = c
  /\ ppc' = [ppc EXCEPT ![c] = "idle"]
  /\ UNCHANGED <<maxConnections, minConnections, pool, inUse, inserted, pcur,
                 handed, initState, initPending, waitQueue>>
  /\ UNCHANGED poolOthers

\* the acquire timeout of a queued caller fires
acquire_timeout(c) ==
  /\ ppc[c] = "waiting"
  /\ \E i \in 1..Len(waitQueue) : waitQueue[i] = c
  /\ waitQueue' = SelectSeq(waitQueue, LAMBDA w : w # c)
  /\ ppc' = [ppc EXCEPT ![c] = "idle"]
  /\ UNCHANGED <<maxConnections, minConnections, pool, inUse, inserted, pcur,
                 handed, initState, initPending>>
  /\ UNCHANGED poolOthers


\* release(poolConn) by the caller that holds poolConn
release(c) ==
  /\ ppc[c] = "holding"
  /\ IF Len(waitQueue) > 0
     THEN /\ waitQueue' = Tail(waitQueue)
          /\ inUse' = [inUse EXCEPT ![pcur[c]] = TRUE]
          /\ ppc' = [ppc EXCEPT ![c] = "idle", ![Head(waitQueue)] = "holding"]
          /\ pcur' = [pcur EXCEPT ![c] = NoRes, ![Head(waitQueue)] = pcur[c]]
          /\ handed' = (handed \ {c}) \cup {Head(waitQueue)}
     ELSE /\ inUse' = [inUse EXCEPT ![pcur[c]] = FALSE]
          /\ ppc' = [ppc EXCEPT ![c] = "idle"]
          /\ pcur' = [pcur EXCEPT ![c] = NoRes]
          /\ handed' = handed \ {c}
          /\ UNCHANGED waitQueue
  /\ Touch(pcur[c])
  /\ UNCHANGED <<maxConnections, minConnections, pool, inserted, initState, initPending>>
  /\ UNCHANGED <<poolFrame, shutdownVars, cleanupInterval, clState, clCur>>

\* the callers that have an entry in the wait queue
Queued == {waitQueue[i] : i \in 1..Len(waitQueue)}

\* The next entry the Map iterator of shutdown yields after entry pos.
NextEntry(p, pos) ==
  IF \E r \in p : r > pos
  THEN CHOOSE r \in p : r > pos /\ \A q \in p : q > pos => r <= q
  ELSE NoRes

\* shutdown(): rejects every queued acquire, empties the queue and starts
\* destroying the entries of the pool, suspended in the first destroyer call.
\* One shutdown call is in flight at a time.
shutdown ==
  /\ sdState # "destroying"
  /\ cleanupInterval' = FALSE
  /\ ppc' = [c \in PoolCallers |-> IF c \in Queued THEN "idle" ELSE ppc[c]]
  /\ waitQueue' = << >>
  /\ sdCur' = NextEntry(pool, 0)
  /\ sdState' = IF NextEntry(pool, 0) = NoRes THEN "resolved" ELSE "destroying"
  /\ UNCHANGED <<maxConnections, minConnections, pool, inUse, inserted, pcur,
                 handed, initState, initPending>>
  /\ UNCHANGED <<poolFrame, lastUsedVars, clState, clCur>>

\* the destroyer returned: destroy deletes the entry, shutdown goes on with
\* the next entry of the Map
shutdown_destroyed ==
  /\ sdState = "destroying"
  /\ pool' = pool \ {sdCur}
  /\ sdCur' = NextEntry(pool \ {sdCur}, sdCur)
  /\ sdState' = IF NextEntry(pool \ {sdCur}, sdCur) = NoRes THEN "resolved" ELSE "destroying"
  /\ UNCHANGED <<maxConnections, minConnections, inUse, inserted, waitQueue, ppc,
                 pcur, handed, initState, initPending>>
  /\ UNCHANGED <<poolFrame, cleanupVars>>

\* the destroyer rejected: destroy and shutdown reject, the entry stays
shutdown_destroyFailed ==
  /\ sdState = "destroying"
  /\ sdCur' = NoRes
  /\ sdState' = "rejected"
  /\ UNCHANGED poolVars
  /\ UNCHANGED <<poolFrame, cleanupVars>>

\* idleTimeoutMs has passed since lastUsed of resource r
idleElapsed(r) ==
  /\ r \in pool
  /\ ~stale[r]
  /\ stale' = [stale EXCEPT ![r] = TRUE]
  /\ UNCHANGED <<clSnap, cleanupInterval, clState, clCur>>
  /\ UNCHANGED <<poolVars, poolFrame, shutdownVars>>

\* The next entry the Map iterator of a cleanup run yields after entry pos
\* that passes the test of the loop body, over the Map contents p with
\* the run's own now (snap), or NoRes.
NextExpired(p, pos, snap) ==
  IF Cardinality(p) > minConnections /\ \E r \in p : r > pos /\ ~inUse[r] /\ r \in snap
  THEN CHOOSE r \in p : /\ r > pos /\ ~inUse[r] /\ r \in snap
                        /\ \A q \in p : (q > pos /\ ~inUse[q] /\ q \in snap) => r <= q
  ELSE NoRes

\* the interval timer fires: cleanup() takes now and runs up to the first
\* await destroy(poolConn), or to its end
cleanup(k) ==
  /\ cleanupInterval
  /\ clState[k] = "idle"
  /\ \A j \in Cleanups : j < k => clState[j] # "idle"
  /\ LET snap == {r \in pool : stale[r]}
         r == NextExpired(pool, 0, snap)
     IN /\ clCur' = [clCur EXCEPT ![k] = r]
        /\ clState' = [clState EXCEPT ![k] = IF r = NoRes THEN "idle" ELSE "destroying"]
        /\ clSnap' = [clSnap EXCEPT ![k] = IF r = NoRes THEN {} ELSE snap]
  /\ UNCHANGED <<stale, cleanupInterval>>
  /\ UNCHANGED <<poolVars, poolFrame, shutdownVars>>

\* the destroyer returned to cleanup run k: destroy deletes the entry and
\* the loop goes on with the next entry of the Map
cleanup_destroyed(k) ==
  /\ clState[k] = "destroying"
  /\ pool' = pool \ {clCur[k]}
  /\ LET r == NextExpired(pool \ {clCur[k]}, clCur[k], clSnap[k])
     IN /\ clCur' = [clCur EXCEPT ![k] = r]
        /\ clState' = [clState EXCEPT ![k] = IF r = NoRes THEN "idle" ELSE "destroying"]
        /\ clSnap' = [clSnap EXCEPT ![k] = IF r = NoRes THEN {} ELSE clSnap[k]]
  /\ UNCHANGED <<stale, cleanupInterval>>
  /\ UNCHANGED <<maxConnections, minConnections, inUse, inserted, waitQueue, ppc,
                 pcur, handed, initState, initPending>>
  /\ UNCHANGED <<poolFrame, shutdownVars>>

\* the destroyer rejected: destroy and cleanup run k reject, the entry stays
cleanup_destroyFailed(k) ==
  /\ clState[k] = "destroying"
  /\ clCur' = [clCur EXCEPT ![k] = NoRes]
  /\ clState' = [clState EXCEPT ![k] = "idle"]
  /\ clSnap' = [clSnap EXCEPT ![k] = {}]
  /\ UNCHANGED <<stale, cleanupInterval>>
  /\ UNCHANGED <<poolVars, poolFrame, shutdownVars>>

\* the pool with its timer and its users in the cleanup runs: initialize,
\* acquire, release and the cleanup runs
CleanupNext ==
  \/ initialize
  \/ initialize_created
  \/ \E c \in PoolCallers : acquire(c)
  \/ \E c \in PoolCallers, isValid \in BOOLEAN : validator_returned(c, isValid)
  \/ \E c \in PoolCallers : validator_threw(c)
  \/ \E c \in PoolCallers : createConnection_resumed(c)
  \/ \E c \in PoolCallers : acquire_created(c)
  \/ \E c \in PoolCallers : acquire_timeout(c)
  \/ \E c \in PoolCallers : release(c)
  \/ \E r \in Res : idleElapsed(r)
  \/ \E k \in Cleanups : cleanup(k)
  \/ \E k \in Cleanups : cleanup_destroyed(k)
  \/ \E k \in Cleanups : cleanup_destroyFailed(k)

\* the pool and its users in the shutdown runs: all of PoolNext and shutdown
ShutdownNext ==
  \/ initialize
  \/ initialize_created
  \/ \E c \in PoolCallers : acquire(c)
  \/ \E c \in PoolCallers, isValid \in BOOLEAN : validator_returned(c, isValid)
  \/ \E c \in PoolCallers : validator_threw(c)
  \/ \E c \in PoolCallers : createConnection_resumed(c)
  \/ \E c \in PoolCallers : createConnection_failed(c)
  \/ \E c \in PoolCallers : acquire_created(c)
  \/ \E c \in PoolCallers : acquire_timeout(c)
  \/ \E c \in PoolCallers : release(c)
  \/ shutdown
  \/ shutdown_destroyed
  \/ shutdown_destroyFailed

\* the pool's users in the wait-queue runs: acquire, release and shutdown
QueueNext ==
  \/ \E c \in PoolCallers : acquire(c)
  \/ \E c \in PoolCallers, isValid \in BOOLEAN : validator_returned(c, isValid)
  \/ \E c \in PoolCallers : createConnection_resumed(c)
  \/ \E c \in PoolCallers : createConnection_failed(c)
  \/ \E c \in PoolCallers : acquire_created(c)
  \/ \E c \in PoolCallers : acquire_timeout(c)
  \/ \E c \in PoolCallers : release(c)
  \/ shutdown
  \/ shutdown_destroyed

PoolNext ==
  \/ initialize
  \/ initialize_created
  \/ \E c \in PoolCallers : acquire(c)
  \/ \E c \in PoolCallers, isValid \in BOOLEAN : validator_returned(c, isValid)
  \/ \E c \in PoolCallers : validator_threw(c)
  \/ \E c \in PoolCallers : createConnection_resumed(c)
  \/ \E c \in PoolCallers : createConnection_failed(c)
  \/ \E c \in PoolCallers : acquire_created(c)
  \/ \E c \in PoolCallers : acquire_timeout(c)
  \/ \E c \in PoolCallers : release(c)

\* ----------------------------------------------------------------- EventBus
BusObs(op, d, a, delivered, result) ==
  [op |-> op, d |-> d, a |-> a, delivered |-> delivered, result |-> result]

BusInit ==
  /\ listeners = [n \in EventNames |-> << >>]
  /\ filters = [n \in EventNames |-> << >>]
  /\ eventCount = 0
  /\ busLast = BusObs("init", "none", "none", << >>, "none")

RECURSIVE SumLen(_)
SumLen(N) ==
  IF N = {} THEN 0
  ELSE LET n == CHOOSE x \in N : TRUE IN Len(listeners[n]) + SumLen(N \ {n})

ListenerCount == SumLen(EventNames)

\* The callbacks EventEmitter.emit invokes on the array ls, in order: the
\* loop ends at the first callback that throws, whose exception leaves emit.
RECURSIVE Invoked(_)
Invoked(ls) ==
  IF ls = << >> THEN << >>
  ELSE IF Head(ls) \in Throwing THEN <<Head(ls)>>
  ELSE <<Head(ls)>> \o Invoked(Tail(ls))

\* EventEmitter.emit(name, payload): the <<name, callback>> invocations made
\* and the outcome: "true", "false" (no listener) or "threw" (a listener
\* threw, or the event is 'error' and has no listener).
Emit(name) ==
  LET ls == listeners[name]
      inv == Invoked(ls)
  IN [delivered |-> [i \in 1..Len(inv) |-> <<name, inv[i]>>],
      result |-> IF ls = << >>
                 THEN (IF name = "error" THEN "threw" ELSE "false")
                 ELSE IF \E i \in 1..Len(inv) : inv[i] \in Throwing THEN "threw"
                 ELSE "true"]

\* what a subscribe call asked for: the events of one device, of one address
\* of one device, or ("any") of all
Filter(d, a) == [deviceId |-> d, address |-> a]

\* this.on(name, callback)
On(name, k) ==
  /\ ListenerCount < MaxListeners
  /\ listeners' = [listeners EXCEPT ![name] = Append(@, k)]
  /\ UNCHANGED eventCount

\* this.off(name, callback): removes the most recently added instance
Off(name, k) ==
  LET ls == listeners[name]
      idx == {i \in 1..Len(ls) : ls[i] = k}
  IN /\ listeners' =
          IF idx = {} THEN listeners
          ELSE LET m == CHOOSE i \in idx : \A j \in idx : j <= i
               IN [listeners EXCEPT ![name] =
                      SubSeq(ls, 1, m - 1) \o SubSeq(ls, m + 1, Len(ls))]
     /\ UNCHANGED eventCount

onData(d, k) ==
  /\ On(DataDeviceEvent(d), k)
  /\ filters' = [filters EXCEPT ![DataDeviceEvent(d)] = Append(@, Filter(d, "any"))]
  /\ busLast' = BusObs("onData", "none", "none", << >>, "none")
  /\ UNCHANGED busOthers

onDataAddress(d, a, k) ==
  /\ On(DataAddressEvent(d, a), k)
  /\ filters' = [filters EXCEPT ![DataAddressEvent(d, a)] = Append(@, Filter(d, a))]
  /\ busLast' = BusObs("onDataAddress", "none", "none", << >>, "none")
  /\ UNCHANGED busOthers

onAllData(k) ==
  /\ On("data", k)
  /\ filters' = [filters EXCEPT !["data"] = Append(@, Filter("any", "any"))]
  /\ busLast' = BusObs("onAllData", "none", "none", << >>, "none")
  /\ UNCHANGED busOthers

offData(d, k) ==
  /\ Off(DataDeviceEvent(d), k)
  /\ LET ls == listeners[DataDeviceEvent(d)]
         idx == {i \in 1..Len(ls) : ls[i] = k}
     IN filters' =
          IF idx = {} THEN filters
          ELSE LET m == CHOOSE i \in idx : \A j \in idx : j <= i
               IN [filters EXCEPT ![DataDeviceEvent(d)] =
                      SubSeq(@, 1, m - 1) \o SubSeq(@, m + 1, Len(@))]
  /\ busLast' = BusObs("offData", "none", "none", << >>, "none")
  /\ UNCHANGED busOthers

onError(k) ==
  /\ On("error", k)
  /\ filters' = [filters EXCEPT !["error"] = Append(@, Filter("any", "any"))]
  /\ busLast' = BusObs("onError", "none", "none", << >>, "none")
  /\ UNCHANGED busOthers

onStatus(k) ==
  /\ On("status", k)
  /\ filters' = [filters EXCEPT !["status"] = Append(@, Filter("any", "any"))]
  /\ busLast' = BusObs("onStatus", "none", "none", << >>, "none")
  /\ UNCHANGED busOthers

\* emitData: emit(exact) || emit(device) || emit('data'); a later emit is
\* evaluated only if the earlier ones returned false.
emitData(d, a) ==
  /\ eventCount < MaxEventCount
  /\ eventCount' = eventCount + 1
  /\ LET e1 == Emit(DataAddressEvent(d, a))
         e2 == Emit(DataDeviceEvent(d))
         e3 == Emit("data")
     IN busLast' =
          IF e1.result # "false"
          THEN BusObs("emitData", d, a, e1.delivered, e1.result)
          ELSE IF e2.result # "false"
          THEN BusObs("emitData", d, a, e2.delivered, e2.result)
          ELSE BusObs("emitData", d, a, e3.delivered, e3.result)
  /\ UNCHANGED <<listeners, filters>>
  /\ UNCHANGED busOthers

emitError(d) ==
  /\ busLast' = BusObs("emitError", d, "none", Emit("error").delivered, Emit("error").result)
  /\ UNCHANGED <<listeners, filters, eventCount>>
  /\ UNCHANGED busOthers

emitStatus(d, st) ==
  /\ busLast' = BusObs("emitStatus", d, st, Emit("status").delivered, Emit("status").result)
  /\ UNCHANGED <<listeners, filters, eventCount>>
  /\ UNCHANGED busOthers

resetStats ==
  /\ eventCount' = 0
  /\ busLast' = BusObs("resetStats", "none", "none", << >>, "none")
  /\ UNCHANGED <<listeners, filters>>
  /\ UNCHANGED busOthers

BusNext ==
  \/ \E d \in BusDevices, k \in Callbacks : onData(d, k)
  \/ \E d \in BusDevices, a \in Addresses, k \in Callbacks : onDataAddress(d, a, k)
  \/ \E k \in Callbacks : onAllData(k)
  \/ \E d \in BusDevices, k \in Callbacks : offData(d, k)
  \/ \E k \in Callbacks : onError(k)
  \/ \E k \in Callbacks : onStatus(k)
  \/ \E d \in BusDevices, a \in Addresses : emitData(d, a)
  \/ \E d \in BusDevices : emitError(d)
  \/ \E d \in BusDevices, st \in Statuses : emitStatus(d, st)
  \/ resetStats

\* ------------------------------------------- OpcuaAdapter under the manager
\* One OPC UA device driven through the DeviceManager by a caller that
\* awaits every call before issuing the next one.
OpcObs(op, out) == [op |-> op, out |-> out]

OpcInit ==
  /\ opcStatus = "disconnected"
  /\ opcClient = "null"
  /\ opcSession = "null"
  /\ opcSubscription = "null"
  /\ opcSubscriptions = {}
  /\ opcItems = [n \in NodeIds |-> 0]
  /\ opcRegistered = FALSE
  /\ opcCall = "none"
  /\ opcArg = "none"
  /\ opcLast = OpcObs("init", "none")

opcIsConnected == opcStatus = "connected" /\ opcSession # "null"

\* connectDevice while no adapter is registered for the device: the factory
\* makes a new OpcuaAdapter, whose connect runs up to await client.connect.
opcConnectDevice ==
  /\ opcCall = "none"
  /\ ~opcRegistered
  /\ opcStatus' = "connecting"
  /\ opcClient' = "live"
  /\ opcSession' = "null"
  /\ opcSubscription' = "null"
  /\ opcSubscriptions' = {}
  /\ opcItems' = [n \in NodeIds |-> 0]
  /\ opcCall' = "client.connect"
  /\ opcLast' = OpcObs("connectDevice", "pending")
  /\ UNCHANGED <<opcRegistered, opcArg>>
  /\ UNCHANGED opcOthers

\* the pending await of connect resolved
opcConnect_resolved ==
  /\ opcCall \in {"client.connect", "createSession", "createSubscription2"}
  /\ IF opcCall = "client.connect"
     THEN /\ opcCall' = "createSession"
          /\ UNCHANGED <<opcStatus, opcSession, opcSubscription, opcRegistered, opcLast>>
     ELSE IF opcCall = "createSession"
     THEN /\ opcSession' = "live"
          /\ opcCall' = "createSubscription2"
          /\ UNCHANGED <<opcStatus, opcSubscription, opcRegistered, opcLast>>
     ELSE /\ opcSubscription' = "live"
          /\ opcStatus' = "connected"
          /\ opcRegistered' = TRUE
          /\ opcCall' = "none"
          /\ opcLast' = OpcObs("connectDevice", "ok")
          /\ UNCHANGED opcSession
  /\ UNCHANGED <<opcClient, opcSubscriptions, opcItems, opcArg>>
  /\ UNCHANGED opcOthers

\* the pending await of connect rejected: the catch block of connect
opcConnect_rejected ==
  /\ opcCall \in {"client.connect", "createSession", "createSubscription2"}
  /\ opcStatus' = "error"
  /\ opcCall' = "none"
  /\ opcLast' = OpcObs("connectDevice", "error")
  /\ UNCHANGED <<opcClient, opcSession, opcSubscription, opcSubscriptions,
                 opcItems, opcRegistered, opcArg>>
  /\ UNCHANGED opcOthers

\* DeviceManager.subscribe -> OpcuaAdapter.subscribe up to await monitor
opcSubscribe(address) ==
  /\ opcCall = "none"
  /\ IF ~opcRegistered
     THEN /\ opcLast' = OpcObs("subscribe", "errDeviceNotConnected")
          /\ UNCHANGED <<opcCall, opcArg>>
     ELSE IF ~opcIsConnected \/ opcSubscription = "null"
     THEN /\ opcLast' = OpcObs("subscribe", "errNotConnected")
          /\ UNCHANGED <<opcCall, opcArg>>
     ELSE /\ opcItems[address] < MaxItems
          /\ opcCall' = "monitor"
          /\ opcArg' = address
          /\ opcLast' = OpcObs("subscribe", "pending")
  /\ UNCHANGED <<opcStatus, opcClient, opcSession, opcSubscription,
                 opcSubscriptions, opcItems, opcRegistered>>
  /\ UNCHANGED opcOthers

\* monitor() resolved with a new monitored item: the 'changed' listener is
\* attached to it and it replaces whatever the Map held for the address
opcSubscribe_resolved ==
  /\ opcCall = "monitor"
  /\ opcSubscriptions' = opcSubscriptions \cup {opcArg}
  /\ opcItems' = [opcItems EXCEPT ![opcArg] = @ + 1]
  /\ opcCall' = "none"
  /\ opcArg' = "none"
  /\ opcLast' = OpcObs("subscribe", "ok")
  /\ UNCHANGED <<opcStatus, opcClient, opcSession, opcSubscription, opcRegistered>>
  /\ UNCHANGED opcOthers

opcSubscribe_rejected ==
  /\ opcCall = "monitor"
  /\ opcCall' = "none"
  /\ opcArg' = "none"
  /\ opcLast' = OpcObs("subscribe", "error")
  /\ UNCHANGED <<opcStatus, opcClient, opcSession, opcSubscription,
                 opcSubscriptions, opcItems, opcRegistered>>
  /\ UNCHANGED opcOthers

\* DeviceManager.unsubscribe -> OpcuaAdapter.unsubscribe up to await terminate
opcUnsubscribe(address) ==
  /\ opcCall = "none"
  /\ IF ~opcRegistered
     THEN /\ opcLast' = OpcObs("unsubscribe", "errDeviceNotConnected")
          /\ UNCHANGED <<opcCall, opcArg>>
     ELSE IF address \notin opcSubscriptions
     THEN /\ opcLast' = OpcObs("unsubscribe", "noop")
          /\ UNCHANGED <<opcCall, opcArg>>
     ELSE /\ opcCall' = "item.terminate"
          /\ opcArg' = address
          /\ opcLast' = OpcObs("unsubscribe", "pending")
  /\ UNCHANGED <<opcStatus, opcClient, opcSession, opcSubscription,
                 opcSubscriptions, opcItems, opcRegistered>>
  /\ UNCHANGED opcOthers

\* terminate() of the monitored item held in the Map resolved
opcUnsubscribe_resolved ==
  /\ opcCall = "item.terminate"
  /\ opcSubscriptions' = opcSubscriptions \ {opcArg}
  /\ opcItems' = [opcItems EXCEPT ![opcArg] = IF @ > 0 THEN @ - 1 ELSE 0]
  /\ opcCall' = "none"
  /\ opcArg' = "none"
  /\ opcLast' = OpcObs("unsubscribe", "ok")
  /\ UNCHANGED <<opcStatus, opcClient, opcSession, opcSubscription, opcRegistered>>
  /\ UNCHANGED opcOthers

opcUnsubscribe_rejected ==
  /\ opcCall = "item.terminate"
  /\ opcCall' = "none"
  /\ opcArg' = "none"
  /\ opcLast' = OpcObs("unsubscribe", "error")
  /\ UNCHANGED <<opcStatus, opcClient, opcSession, opcSubscription,
                 opcSubscriptions, opcItems, opcRegistered>>
  /\ UNCHANGED opcOthers

\* OpcuaAdapter.disconnect from the field values (sub, ses, cli) on: the next
\* await it suspends at, or "end" when no await is left.
OpcDisconnectAwait(sub, ses, cli) ==
  IF sub # "null" THEN "terminate"
  ELSE IF ses # "null" THEN "close"
  ELSE IF cli # "null" THEN "client.disconnect"
  ELSE "end"

\* The end of OpcuaAdapter.disconnect and, after it, of disconnectDevice.
OpcDisconnectEnd ==
  /\ opcSubscriptions' = {}
  /\ opcStatus' = "disconnected"
  /\ opcRegistered' = FALSE
  /\ opcCall' = "none"
  /\ opcLast' = OpcObs("disconnectDevice", "ok")

\* DeviceManager.disconnectDevice -> OpcuaAdapter.disconnect up to its first await
opcDisconnectDevice ==
  /\ opcCall = "none"
  /\ IF ~opcRegistered
     THEN /\ opcLast' = OpcObs("disconnectDevice", "noop")
          /\ UNCHANGED <<opcStatus, opcSubscriptions, opcRegistered, opcCall>>
     ELSE IF OpcDisconnectAwait(opcSubscription, opcSession, opcClient) = "end"
     THEN OpcDisconnectEnd
     ELSE /\ opcCall' = OpcDisconnectAwait(opcSubscription, opcSession, opcClient)
          /\ opcLast' = OpcObs("disconnectDevice", "pending")
          /\ UNCHANGED <<opcStatus, opcSubscriptions, opcRegistered>>
  /\ UNCHANGED <<opcClient, opcSession, opcSubscription, opcItems, opcArg>>
  /\ UNCHANGED opcOthers

\* the pending await of disconnect resolved: the field is nulled and
\* disconnect runs on to its next await or to its end
opcDisconnect_resolved ==
  /\ opcCall \in {"terminate", "close", "client.disconnect"}
  /\ opcSubscription' = IF opcCall = "terminate" THEN "null" ELSE opcSubscription
  /\ opcSession' = IF opcCall = "close" THEN "null" ELSE opcSession
  /\ opcClient' = IF opcCall = "client.disconnect" THEN "null" ELSE opcClient
  /\ opcItems' = IF opcCall = "terminate" THEN [n \in NodeIds |-> 0] ELSE opcItems
  /\ IF OpcDisconnectAwait(opcSubscription', opcSession', opcClient') = "end"
     THEN OpcDisconnectEnd
     ELSE /\ opcCall' = OpcDisconnectAwait(opcSubscription', opcSession', opcClient')
          /\ UNCHANGED <<opcStatus, opcSubscriptions, opcRegistered, opcLast>>
  /\ UNCHANGED opcArg
  /\ UNCHANGED opcOthers

\* the pending await of disconnect rejected: disconnect has no try block, so
\* the rejection leaves disconnect and disconnectDevice at once
opcDisconnect_rejected ==
  /\ opcCall \in {"terminate", "close", "client.disconnect"}
  /\ opcCall' = "none"
  /\ opcLast' = OpcObs("disconnectDevice", "error")
  /\ UNCHANGED <<opcStatus, opcClient, opcSession, opcSubscription,
                 opcSubscriptions, opcItems, opcRegistered, opcArg>>
  /\ UNCHANGED opcOthers

OpcNext ==
  \/ opcConnectDevice
  \/ opcConnect_resolved
  \/ opcConnect_rejected
  \/ \E address \in NodeIds : opcSubscribe(address)
  \/ opcSubscribe_resolved
  \/ opcSubscribe_rejected
  \/ \E address \in NodeIds : opcUnsubscribe(address)
  \/ opcUnsubscribe_resolved
  \/ opcUnsubscribe_rejected
  \/ opcDisconnectDevice
  \/ opcDisconnect_resolved
  \/ opcDisconnect_rejected

\* ---------------------------------------------------------------- S7Adapter
\* A connected S7Adapter and its poll subscriptions.
\* callbacks that throw when they are called
PollThrowing == {"c2"}

\* observation of a step: the callbacks it called (delivered), the events it
\* handed to them in order, whether its read succeeded, and whether the
\* promise of the tick rejected with nobody to handle it
S7TickObs(op, address, delivered, events, readOk, unhandled) ==
  [op |-> op, address |-> address, delivered |-> delivered,
   events |-> events, readOk |-> readOk, unhandled |-> unhandled]

S7Obs(op, address, delivered) == S7TickObs(op, address, delivered, << >>, TRUE, FALSE)

\* position of the first callback of the list that throws, 0 if none does
FirstThrower(callbacks) ==
  IF \E i \in 1..Len(callbacks) : callbacks[i] \in PollThrowing
  THEN CHOOSE i \in 1..Len(callbacks) :
         /\ callbacks[i] \in PollThrowing
         /\ \A j \in 1..(i - 1) : callbacks[j] \notin PollThrowing
  ELSE 0

\* for (const cb of callbacks) cb(event): the callbacks called before the
\* loop ends or a callback throws
Called(callbacks) ==
  IF FirstThrower(callbacks) = 0 THEN callbacks
  ELSE SubSeq(callbacks, 1, FirstThrower(callbacks))

EventLoop(callbacks, quality) ==
  [i \in 1..Len(Called(callbacks)) |-> [callback |-> callbacks[i], quality |-> quality]]

\* the events of a tick after its read settled: the try block hands out
\* 'good' events, the catch block 'bad' events; an exception of a callback
\* in the try block is caught by the same catch block
TickEvents(callbacks, readOk) ==
  IF ~readOk THEN EventLoop(callbacks, "bad")
  ELSE IF FirstThrower(callbacks) = 0 THEN EventLoop(callbacks, "good")
  ELSE EventLoop(callbacks, "good") \o EventLoop(callbacks, "bad")

S7Init ==
  /\ s7Subscriptions = {}
  /\ s7SubscriptionCallbacks = [a \in PollAddresses |-> << >>]
  /\ s7Reads = [a \in PollAddresses |-> 0]
  /\ s7Started = [a \in PollAddresses |-> << >>]
  /\ s7Last = S7Obs("init", "none", << >>)

\* subscribe: the first subscribe of an address creates its timer and its
\* callback list; every subscribe appends the callback to the list
s7Subscribe(address, callback) ==
  /\ Len(s7SubscriptionCallbacks[address]) < MaxCallbacks
  /\ s7Subscriptions' = s7Subscriptions \cup {address}
  /\ s7SubscriptionCallbacks' =
       [s7SubscriptionCallbacks EXCEPT ![address] =
          Append(IF address \in s7Subscriptions THEN @ ELSE << >>, callback)]
  /\ s7Last' = S7Obs("subscribe", address, << >>)
  /\ UNCHANGED <<s7Reads, s7Started>>
  /\ UNCHANGED s7Others

\* unsubscribe(address): clears the timer and deletes both map entries
s7Unsubscribe(address) ==
  /\ IF address \in s7Subscriptions
     THEN /\ s7Subscriptions' = s7Subscriptions \ {address}
          /\ s7SubscriptionCallbacks' = [s7SubscriptionCallbacks EXCEPT ![address] = << >>]
     ELSE UNCHANGED <<s7Subscriptions, s7SubscriptionCallbacks>>
  /\ s7Last' = S7Obs("unsubscribe", address, << >>)
  /\ UNCHANGED <<s7Reads, s7Started>>
  /\ UNCHANGED s7Others

\* the interval timer of an address fires: the tick calls this.read(address)
\* and suspends in the await
s7Tick(address) ==
  /\ address \in s7Subscriptions
  /\ s7Reads[address] < MaxReads
  /\ s7Reads' = [s7Reads EXCEPT ![address] = @ + 1]
  /\ s7Started' = [s7Started EXCEPT ![address] = Append(@, s7SubscriptionCallbacks[address])]
  /\ s7Last' = S7Obs("tick", address, << >>)
  /\ UNCHANGED <<s7Subscriptions, s7SubscriptionCallbacks>>
  /\ UNCHANGED s7Others

\* sequence q without its i-th element
RemoveAt(q, i) == [j \in 1..(Len(q) - 1) |-> IF j < i THEN q[j] ELSE q[j + 1]]

\* Variant of s7Tick_readSettled that stops the polling of the address
\* when the read failed.
s7Tick_readSettled_stopsOnFailure(address, readOk) ==
  /\ s7Reads[address] > 0
  /\ s7Reads' = [s7Reads EXCEPT ![address] = @ - 1]
  /\ \E i \in 1..Len(s7Started[address]) :
       s7Started' = [s7Started EXCEPT ![address] = RemoveAt(@, i)]
  /\ s7Last' = S7TickObs("tick_readSettled", address,
                         Called(s7SubscriptionCallbacks[address]),
                         TickEvents(s7SubscriptionCallbacks[address], readOk),
                         readOk,
                         FirstThrower(s7SubscriptionCallbacks[address]) # 0)
  /\ IF readOk
     THEN UNCHANGED <<s7Subscriptions, s7SubscriptionCallbacks>>
     ELSE /\ s7Subscriptions' = s7Subscriptions \ {address}
          /\ s7SubscriptionCallbacks' = [s7SubscriptionCallbacks EXCEPT ![address] = << >>]
  /\ UNCHANGED s7Others

\* the read of a tick settled with a value (readOk) or an error: the tick
\* hands events to the callbacks the address has at that moment; an address
\* without an entry has no callbacks
s7Tick_readSettled(address, readOk) ==
  /\ s7Reads[address] > 0
  /\ s7Reads' = [s7Reads EXCEPT ![address] = @ - 1]
  /\ \E i \in 1..Len(s7Started[address]) :
       s7Started' = [s7Started EXCEPT ![address] = RemoveAt(@, i)]
  /\ s7Last' = S7TickObs("tick_readSettled", address,
                         Called(s7SubscriptionCallbacks[address]),
                         TickEvents(s7SubscriptionCallbacks[address], readOk),
                         readOk,
                         FirstThrower(s7SubscriptionCallbacks[address]) # 0)
  /\ UNCHANGED <<s7Subscriptions, s7SubscriptionCallbacks>>
  /\ UNCHANGED s7Others

S7Next ==
  \/ \E address \in PollAddresses, callback \in PollCallbacks : s7Subscribe(address, callback)
  \/ \E address \in PollAddresses : s7Unsubscribe(address)
  \/ \E address \in PollAddresses : s7Tick(address)
  \/ \E address \in PollAddresses, readOk \in BOOLEAN : s7Tick_readSettled(address, readOk)

\* the polling of one address
TickNext ==
  \/ \E callback \in PollCallbacks : s7Subscribe("t1", callback)
  \/ s7Unsubscribe("t1")
  \/ s7Tick("t1")
  \/ \E readOk \in BOOLEAN : s7Tick_readSettled("t1", readOk)

\* ------------------------------------------- S7Adapter: connection, metrics
S7ConnInit ==
  /\ s7ConnectionStatus = "disconnected"
  /\ s7Plc = "null"
  /\ s7ConnectCall = "none"
  /\ s7CurCallback = FALSE
  /\ s7OldCallbacks = 0
  /\ s7LinkUp = FALSE
  /\ s7ReadCalls = 0 /\ s7ReadWaiting = 0 /\ s7ReadCount = 0
  /\ s7WriteCalls = 0 /\ s7WriteWaiting = 0 /\ s7WriteCount = 0

s7IsConnected == s7ConnectionStatus = "connected" /\ s7Plc # "null"

\* connect(config) up to its wait promise: a new PLC instance replaces
\* this.plc and initiateConnection is started on it. One connect() call
\* is in flight at a time.
s7Connect ==
  /\ s7ConnectCall # "waiting"
  /\ s7OldCallbacks + (IF s7CurCallback THEN 1 ELSE 0) < MaxConnects
  /\ s7ConnectionStatus' = "connecting"
  /\ s7Plc' = "plc"
  /\ s7OldCallbacks' = s7OldCallbacks + (IF s7CurCallback THEN 1 ELSE 0)
  /\ s7CurCallback' = TRUE
  /\ s7LinkUp' = FALSE
  /\ s7ConnectCall' = "waiting"
  /\ UNCHANGED s7MetricVars
  /\ UNCHANGED s7ConnOthers

\* the initiateConnection callback of this.plc runs, with or without err
s7InitiateCallback(err) ==
  /\ s7CurCallback
  /\ s7CurCallback' = FALSE
  /\ s7ConnectionStatus' = IF err THEN "error" ELSE "connected"
  /\ s7LinkUp' = ~err
  /\ UNCHANGED <<s7Plc, s7ConnectCall, s7OldCallbacks>>
  /\ UNCHANGED s7MetricVars
  /\ UNCHANGED s7ConnOthers

\* the initiateConnection callback of a replaced PLC instance runs
s7StaleCallback(err) ==
  /\ s7OldCallbacks > 0
  /\ s7OldCallbacks' = s7OldCallbacks - 1
  /\ s7ConnectionStatus' = IF err THEN "error" ELSE "connected"
  /\ UNCHANGED <<s7Plc, s7ConnectCall, s7CurCallback, s7LinkUp>>
  /\ UNCHANGED s7MetricVars
  /\ UNCHANGED s7ConnOthers

\* the 100 ms check of the wait promise sees 'connected' or 'error':
\* connect() resolves, or rejects through its catch block
s7ConnectCheck ==
  /\ s7ConnectCall = "waiting"
  /\ s7ConnectionStatus \in {"connected", "error"}
  /\ s7ConnectCall' = IF s7ConnectionStatus = "connected" THEN "resolved" ELSE "rejected"
  /\ UNCHANGED <<s7ConnectionStatus, s7Plc, s7CurCallback, s7OldCallbacks, s7LinkUp>>
  /\ UNCHANGED s7MetricVars
  /\ UNCHANGED s7ConnOthers

\* the timeout of the wait promise fires: connect() rejects through its
\* catch block
s7ConnectTimeout ==
  /\ s7ConnectCall = "waiting"
  /\ s7ConnectCall' = "rejected"
  /\ s7ConnectionStatus' = "error"
  /\ UNCHANGED <<s7Plc, s7CurCallback, s7OldCallbacks, s7LinkUp>>
  /\ UNCHANGED s7MetricVars
  /\ UNCHANGED s7ConnOthers

\* disconnect(): drops the connection of this.plc
s7Disconnect ==
  /\ s7Plc' = "null"
  /\ s7CurCallback' = FALSE
  /\ s7LinkUp' = FALSE
  /\ s7ConnectionStatus' = "disconnected"
  /\ s7ConnectCall' = IF s7ConnectCall = "waiting" THEN "waiting" ELSE "none"
  /\ UNCHANGED s7OldCallbacks
  /\ UNCHANGED s7MetricVars
  /\ UNCHANGED s7ConnOthers

\* the PLC or the network closes the established transport; the adapter
\* has no handler for it
s7TransportClosed ==
  /\ s7LinkUp
  /\ s7LinkUp' = FALSE
  /\ UNCHANGED <<s7ConnectionStatus, s7Plc, s7ConnectCall, s7CurCallback, s7OldCallbacks>>
  /\ UNCHANGED s7MetricVars
  /\ UNCHANGED s7ConnOthers

\* read(address): throws when not connected, else suspends in readAllItems
s7Read ==
  /\ s7ReadCalls < MaxOps
  /\ s7ReadCalls' = s7ReadCalls + 1
  /\ s7ReadWaiting' = IF s7IsConnected THEN s7ReadWaiting + 1 ELSE s7ReadWaiting
  /\ UNCHANGED <<s7ReadCount, s7WriteCalls, s7WriteWaiting, s7WriteCount>>
  /\ UNCHANGED s7ConnVars
  /\ UNCHANGED s7ConnOthers

\* the readAllItems callback runs, with or without err
s7Read_done(err) ==
  /\ s7ReadWaiting > 0
  /\ s7ReadWaiting' = s7ReadWaiting - 1
  /\ s7ReadCount' = IF err THEN s7ReadCount ELSE s7ReadCount + 1
  /\ UNCHANGED <<s7ReadCalls, s7WriteCalls, s7WriteWaiting, s7WriteCount>>
  /\ UNCHANGED s7ConnVars
  /\ UNCHANGED s7ConnOthers

\* write(address, value): throws when not connected, else suspends in writeItems
s7Write ==
  /\ s7WriteCalls < MaxOps
  /\ s7WriteCalls' = s7WriteCalls + 1
  /\ s7WriteWaiting' = IF s7IsConnected THEN s7WriteWaiting + 1 ELSE s7WriteWaiting
  /\ UNCHANGED <<s7WriteCount, s7ReadCalls, s7ReadWaiting, s7ReadCount>>
  /\ UNCHANGED s7ConnVars
  /\ UNCHANGED s7ConnOthers

\* the writeItems callback runs, with or without err
s7Write_done(err) ==
  /\ s7WriteWaiting > 0
  /\ s7WriteWaiting' = s7WriteWaiting - 1
  /\ s7WriteCount' = IF err THEN s7WriteCount ELSE s7WriteCount + 1
  /\ UNCHANGED <<s7WriteCalls, s7ReadCalls, s7ReadWaiting, s7ReadCount>>
  /\ UNCHANGED s7ConnVars
  /\ UNCHANGED s7ConnOthers

S7ConnNext ==
  \/ s7Connect
  \/ \E err \in BOOLEAN : s7InitiateCallback(err)
  \/ \E err \in BOOLEAN : s7StaleCallback(err)
  \/ s7ConnectCheck
  \/ s7ConnectTimeout
  \/ s7Disconnect
  \/ s7TransportClosed
  \/ s7Read
  \/ \E err \in BOOLEAN : s7Read_done(err)
  \/ s7Write
  \/ \E err \in BOOLEAN : s7Write_done(err)

\* -------------------------------------------------------------- MqttAdapter
\* observation of a step; counted: increments of metrics.readCount in the
\* step, settled: read() promises the step settled
MqReadObs(op, address, connected, out, transport, subscribed, counted, settled) ==
  [op |-> op, address |-> address, connected |-> connected, out |-> out,
   transport |-> transport, subscribed |-> subscribed,
   counted |-> counted, settled |-> settled]

MqObs(op, address, connected, out, transport, subscribed) ==
  MqReadObs(op, address, connected, out, transport, subscribed, 0, 0)

\* number of entries of the callback list q that are in S
CountIn(q, S) == Cardinality({i \in 1..Len(q) : q[i] \in S})

MqInit ==
  /\ mqConnectionStatus = "disconnected"
  /\ mqClient = "null"
  /\ mqClientConnected = FALSE
  /\ mqHandlers = FALSE
  /\ mqCall = "none"
  /\ mqArg = "none"
  /\ mqSubscriptions = {}
  /\ mqBroker = {}
  /\ mqCachedValues = {}
  /\ mqCallbacks = [t \in Topics |-> << >>]
  /\ mqRetryDelays = << >>
  /\ mqLast = MqObs("init", "none", FALSE, "none", {}, FALSE)

mqIsConnected ==
  mqConnectionStatus = "connected" /\ mqClient # "null" /\ mqClientConnected

\* connect(config) up to its await: a new client is created and connects.
\* One call of the adapter is suspended at a time.
mqConnect ==
  /\ mqCall = "none"
  /\ mqClient = "null"
  /\ mqConnectionStatus' = "connecting"
  /\ mqClient' = "client"
  /\ mqCall' = "connect"
  /\ mqLast' = MqObs("connect", "none", mqIsConnected, "pending", {"connect"}, FALSE)
  /\ UNCHANGED <<mqClientConnected, mqHandlers, mqArg, mqSubscriptions, mqBroker, mqCachedValues>>
  /\ mqRetryDelays' = << >>
  /\ UNCHANGED mqCallbacks
  /\ UNCHANGED mqOthers

\* the 'connect' event: the handlers are installed, the state is 'connected'
mqConnect_resolved ==
  /\ mqCall = "connect"
  /\ mqCall' = "none"
  /\ mqClientConnected' = TRUE
  /\ mqHandlers' = TRUE
  /\ mqConnectionStatus' = "connected"
  /\ mqLast' = MqObs("connect", "none", TRUE, "ok", {}, FALSE)
  /\ UNCHANGED <<mqClient, mqArg, mqSubscriptions, mqBroker, mqCachedValues>>
  /\ mqRetryDelays' = << >>
  /\ UNCHANGED mqCallbacks
  /\ UNCHANGED mqOthers

\* the 'error' event or the timeout: connect() rejects, the state is 'error'
mqConnect_rejected ==
  /\ mqCall = "connect"
  /\ mqCall' = "none"
  /\ mqConnectionStatus' = "error"
  /\ mqLast' = MqObs("connect", "none", FALSE, "errConnect", {}, FALSE)
  /\ UNCHANGED <<mqClient, mqClientConnected, mqHandlers, mqArg, mqSubscriptions,
                 mqBroker, mqCachedValues>>
  /\ UNCHANGED mqRetryDelays
  /\ UNCHANGED mqCallbacks
  /\ UNCHANGED mqOthers

\* the 'close' event of the client: the transport is gone
mqClose ==
  /\ mqHandlers
  /\ mqClientConnected
  /\ mqClientConnected' = FALSE
  /\ mqConnectionStatus' = "disconnected"
  /\ mqLast' = MqObs("close", "none", FALSE, "none", {}, FALSE)
  /\ UNCHANGED <<mqClient, mqHandlers, mqCall, mqArg, mqSubscriptions, mqBroker, mqCachedValues>>
  /\ UNCHANGED mqRetryDelays
  /\ UNCHANGED mqCallbacks
  /\ UNCHANGED mqOthers

\* the reconnect timer of the client: reconnectPeriod after it lost or failed
\* to get its connection the client tries again and emits 'reconnect'; the
\* handler, if connect() got to install it, sets the state
mqReconnect ==
  /\ mqClient # "null"
  /\ mqCall # "end"
  /\ ~mqClientConnected
  /\ Len(mqRetryDelays) < MaxRetries
  /\ mqRetryDelays' = Append(mqRetryDelays, ReconnectPeriod)
  /\ mqConnectionStatus' = IF mqHandlers THEN "reconnecting" ELSE mqConnectionStatus
  /\ mqLast' = MqObs("reconnect", "none", FALSE, "none", {"connect"}, FALSE)
  /\ UNCHANGED <<mqClient, mqClientConnected, mqHandlers, mqCall, mqArg, mqSubscriptions,
                 mqBroker, mqCachedValues>>
  /\ UNCHANGED mqCallbacks
  /\ UNCHANGED mqOthers

\* a retry of the client succeeds after connect() has returned: client.connected
\* is true again; no handler of the adapter listens to 'connect' any more
mqReconnected ==
  /\ mqClient # "null"
  /\ mqCall # "connect"
  /\ mqCall # "end"
  /\ ~mqClientConnected
  /\ Len(mqRetryDelays) > 0
  /\ mqClientConnected' = TRUE
  /\ mqRetryDelays' = << >>
  /\ mqLast' = MqObs("reconnected", "none", mqConnectionStatus = "connected", "none", {}, FALSE)
  /\ UNCHANGED <<mqConnectionStatus, mqClient, mqHandlers, mqCall, mqArg, mqSubscriptions,
                 mqBroker, mqCachedValues>>
  /\ UNCHANGED mqCallbacks
  /\ UNCHANGED mqOthers

\* subscribe(address, callback) up to its await, or to its end
mqSubscribe(address) ==
  /\ mqCall = "none"
  /\ Len(mqCallbacks[address]) < MaxMqCallbacks \/ ~mqIsConnected
  /\ IF ~mqIsConnected
     THEN /\ mqLast' = MqObs("subscribe", address, FALSE, "errNotConnected", {}, FALSE)
          /\ UNCHANGED <<mqCall, mqArg, mqSubscriptions, mqBroker, mqCallbacks>>
     ELSE IF address \in mqSubscriptions
     THEN /\ mqCallbacks' = [mqCallbacks EXCEPT ![address] = Append(@, "cb")]
          /\ mqLast' = MqObs("subscribe", address, TRUE, "ok", {}, FALSE)
          /\ UNCHANGED <<mqCall, mqArg, mqSubscriptions, mqBroker>>
     ELSE /\ UNCHANGED mqCallbacks
          /\ mqSubscriptions' = mqSubscriptions \cup {address}
          /\ mqBroker' = mqBroker \cup {address}
          /\ mqCall' = "subscribe"
          /\ mqArg' = address
          /\ mqLast' = MqObs("subscribe", address, TRUE, "pending", {"subscribe"}, TRUE)
  /\ UNCHANGED <<mqConnectionStatus, mqClient, mqClientConnected, mqHandlers, mqCachedValues>>
  /\ UNCHANGED mqRetryDelays
  /\ UNCHANGED mqOthers

\* the broker granted or refused the subscription
mqSubscribe_settled(granted) ==
  /\ mqCall \in {"subscribe", "read"}
  /\ mqCall' = "none"
  /\ mqArg' = "none"
  /\ mqBroker' = IF granted THEN mqBroker ELSE mqBroker \ {mqArg}
  /\ mqCallbacks' = IF granted
                    THEN [mqCallbacks EXCEPT ![mqArg] =
                            Append(@, IF mqCall = "read" THEN "temp" ELSE "cb")]
                    ELSE mqCallbacks
  /\ mqLast' = MqReadObs(IF mqCall = "read" THEN "read_subscribed" ELSE "subscribe",
                         mqArg, mqIsConnected,
                         IF granted THEN (IF mqCall = "read" THEN "pending" ELSE "ok")
                         ELSE "errAdapter",
                         {}, FALSE, 0, IF mqCall = "read" /\ ~granted THEN 1 ELSE 0)
  /\ UNCHANGED <<mqConnectionStatus, mqClient, mqClientConnected, mqHandlers,
                 mqSubscriptions, mqCachedValues>>
  /\ UNCHANGED mqRetryDelays
  /\ UNCHANGED mqOthers

\* a message of a subscribed topic arrives: handleMessage caches its value
mqMessage(topic) ==
  /\ mqHandlers
  /\ mqClientConnected
  /\ topic \in mqBroker
  /\ mqCachedValues' = mqCachedValues \cup {topic}
  /\ mqCallbacks' = [mqCallbacks EXCEPT ![topic] =
                       [i \in 1..Len(@) |-> IF @[i] = "temp" THEN "done" ELSE @[i]]]
  /\ mqLast' = MqReadObs("message", topic, mqIsConnected, "none", {}, FALSE,
                         CountIn(mqCallbacks[topic], {"temp", "done"}),
                         CountIn(mqCallbacks[topic], {"temp"}))
  /\ UNCHANGED <<mqConnectionStatus, mqClient, mqClientConnected, mqHandlers, mqCall,
                 mqArg, mqSubscriptions, mqBroker>>
  /\ UNCHANGED mqRetryDelays
  /\ UNCHANGED mqOthers

\* read(address): the cached value if there is one; else a temporary
\* subscribe, which throws when not connected and otherwise leaves the
\* read waiting for the first message
mqRead(address) ==
  /\ mqCall = "none"
  /\ \/ Len(mqCallbacks[address]) < MaxMqCallbacks
     \/ address \in mqCachedValues
     \/ ~mqIsConnected
  /\ IF address \in mqCachedValues
     THEN /\ mqLast' = MqReadObs("read", address, mqIsConnected, "value", {}, FALSE, 1, 1)
          /\ UNCHANGED <<mqCall, mqArg, mqSubscriptions, mqBroker, mqCallbacks>>
     ELSE IF ~mqIsConnected
     THEN /\ mqLast' = MqReadObs("read", address, FALSE, "errNotConnected", {}, FALSE, 0, 1)
          /\ UNCHANGED <<mqCall, mqArg, mqSubscriptions, mqBroker, mqCallbacks>>
     ELSE IF address \in mqSubscriptions
     THEN /\ mqCallbacks' = [mqCallbacks EXCEPT ![address] = Append(@, "temp")]
          /\ mqLast' = MqObs("read", address, TRUE, "pending", {}, FALSE)
          /\ UNCHANGED <<mqCall, mqArg, mqSubscriptions, mqBroker>>
     ELSE /\ UNCHANGED mqCallbacks
          /\ mqSubscriptions' = mqSubscriptions \cup {address}
          /\ mqBroker' = mqBroker \cup {address}
          /\ mqCall' = "read"
          /\ mqArg' = address
          /\ mqLast' = MqObs("read", address, TRUE, "pending", {"subscribe"}, TRUE)
  /\ UNCHANGED <<mqConnectionStatus, mqClient, mqClientConnected, mqHandlers, mqCachedValues>>
  /\ UNCHANGED mqRetryDelays
  /\ UNCHANGED mqOthers

\* the timeout of a waiting read fires: the read rejects; its tempCallback
\* stays in the subscription entry
mqRead_timeout(address) ==
  /\ \E i \in 1..Len(mqCallbacks[address]) :
       /\ mqCallbacks[address][i] = "temp"
       /\ mqCallbacks' = [mqCallbacks EXCEPT ![address][i] = "done"]
  /\ mqLast' = MqReadObs("read_timeout", address, mqIsConnected, "errTimeout", {}, FALSE, 0, 1)
  /\ UNCHANGED <<mqConnectionStatus, mqClient, mqClientConnected, mqHandlers, mqCall,
                 mqArg, mqSubscriptions, mqBroker, mqCachedValues>>
  /\ UNCHANGED mqRetryDelays
  /\ UNCHANGED mqOthers

\* write(address, value): throws when not connected, else publishes
mqWrite(address) ==
  /\ mqCall = "none"
  /\ mqLast' = IF mqIsConnected
               THEN MqObs("write", address, TRUE, "pending", {"publish"}, FALSE)
               ELSE MqObs("write", address, FALSE, "errNotConnected", {}, FALSE)
  /\ UNCHANGED <<mqConnectionStatus, mqClient, mqClientConnected, mqHandlers, mqCall,
                 mqArg, mqSubscriptions, mqBroker, mqCachedValues>>
  /\ UNCHANGED mqRetryDelays
  /\ UNCHANGED mqCallbacks
  /\ UNCHANGED mqOthers

\* disconnect() up to its await of client.end, or to its end without client
mqDisconnect ==
  /\ mqCall = "none"
  /\ mqSubscriptions' = {}
  /\ mqCallbacks' = [t \in Topics |-> << >>]
  /\ mqCachedValues' = {}
  /\ IF mqClient = "null"
     THEN /\ mqConnectionStatus' = "disconnected"
          /\ mqLast' = MqObs("disconnect", "none", FALSE, "ok", {}, FALSE)
          /\ UNCHANGED <<mqCall, mqBroker>>
     ELSE /\ mqCall' = "end"
          /\ mqBroker' = {}
          /\ mqLast' = MqObs("disconnect", "none", mqIsConnected, "pending", {"unsubscribe", "end"}, FALSE)
          /\ UNCHANGED mqConnectionStatus
  /\ UNCHANGED <<mqClient, mqClientConnected, mqHandlers, mqArg>>
  /\ UNCHANGED mqRetryDelays
  /\ UNCHANGED mqOthers

\* client.end called back: the client is dropped
mqDisconnect_ended ==
  /\ mqCall = "end"
  /\ mqCall' = "none"
  /\ mqClient' = "null"
  /\ mqClientConnected' = FALSE
  /\ mqHandlers' = FALSE
  /\ mqConnectionStatus' = "disconnected"
  /\ mqLast' = MqObs("disconnect", "none", FALSE, "ok", {}, FALSE)
  /\ UNCHANGED <<mqArg, mqSubscriptions, mqBroker, mqCachedValues>>
  /\ UNCHANGED mqRetryDelays
  /\ UNCHANGED mqCallbacks
  /\ UNCHANGED mqOthers

MqNext ==
  \/ mqConnect
  \/ mqConnect_resolved
  \/ mqConnect_rejected
  \/ mqClose
  \/ mqReconnect
  \/ mqReconnected
  \/ \E address \in Topics : mqSubscribe(address)
  \/ \E granted \in BOOLEAN : mqSubscribe_settled(granted)
  \/ \E topic \in Topics : mqMessage(topic)
  \/ \E address \in Topics : mqRead(address)
  \/ \E address \in Topics : mqRead_timeout(address)
  \/ \E address \in Topics : mqWrite(address)
  \/ mqDisconnect
  \/ mqDisconnect_ended

Init == DmInit /\ PoolDefault /\ BusInit /\ OpcInit /\ S7Init /\ S7ConnInit /\ MqInit

InitPool == DmInit /\ PoolInit /\ BusInit /\ OpcInit /\ S7Init /\ S7ConnInit /\ MqInit

\* a pool of one connection after its constructor and initialize(): the
\* connection has been created and is idle
InitQueue ==
  /\ DmInit /\ BusInit /\ OpcInit /\ S7Init /\ S7ConnInit /\ MqInit
  /\ maxConnections = 1
  /\ minConnections = 1
  /\ pool = {1}
  /\ inUse = [r \in Res |-> FALSE]
  /\ inserted = 1
  /\ waitQueue = << >>
  /\ ppc = [c \in PoolCallers |-> "idle"]
  /\ pcur = [c \in PoolCallers |-> NoRes]
  /\ handed = {}
  /\ initState = "done"
  /\ initPending = 0
  /\ sdState = "idle"
  /\ sdCur = NoRes
  /\ cleanupInterval = TRUE
  /\ stale = [r \in Res |-> FALSE]
  /\ clState = [k \in Cleanups |-> "idle"]
  /\ clCur = [k \in Cleanups |-> NoRes]
  /\ clSnap = [k \in Cleanups |-> {}]

SpecDM == Init /\ [][DmNext]_vars

SpecDelegate == Init /\ [][DelegateNext]_vars

SpecList == Init /\ [][ListNext]_vars

SpecBulk == Init /\ [][BulkNext]_vars

SpecS7 == Init /\ [][S7Next]_vars

SpecTick == Init /\ [][TickNext]_vars

SpecS7Conn == Init /\ [][S7ConnNext]_vars

SpecMqtt == Init /\ [][MqNext]_vars

\* the timers of the adapter and of its client fire when they are due and
\* client.end calls back; calls from outside, transport drops and
\* successful retries need not happen
SpecMqttLive ==
  /\ Init /\ [][MqNext]_vars
  /\ WF_vars(mqReconnect)
  /\ WF_vars(mqDisconnect_ended)
  /\ \A address \in Topics : WF_vars(mqRead_timeout(address))

SpecPool == InitPool /\ [][PoolNext]_vars

\* a pool of at most two connections, one of them kept as the minimum
InitCleanup ==
  /\ DmInit /\ BusInit /\ OpcInit /\ S7Init /\ S7ConnInit /\ MqInit
  /\ PoolConstructed([maxConnections |-> 2, minConnections |-> 1])

SpecCleanup == InitCleanup /\ [][CleanupNext]_vars

SpecShutdown == InitPool /\ [][ShutdownNext]_vars

\* the timer of a queued acquire, armed by setTimeout, fires unless cleared
SpecQueue ==
  /\ InitQueue /\ [][QueueNext]_vars
  /\ \A c \in PoolCallers : WF_vars(acquire_timeout(c))

SpecBus == Init /\ [][BusNext]_vars

SpecOpcua == Init /\ [][OpcNext]_vars

Next == DmNext \/ ListNext \/ DelegateNext \/ BulkNext \/ PoolNext \/ QueueNext \/ CleanupNext \/ ShutdownNext \/ BusNext \/ OpcNext \/ S7Next \/ TickNext \/ S7ConnNext \/ MqNext

Spec == Init /\ [][Next]_vars

\* ---------------------------------------------------------- DeviceManager

\* C1: for every deviceId at most one adapter.connect is in flight at any
\* time, however many connectDevice(deviceId) calls are issued concurrently.
C1_AtMostOneConnectInFlight ==
  \A d \in DeviceIds : Cardinality(ConnectsInFlight(d)) <= 1

\* C7: whenever connectDevice(id) fails (no factory for the protocol, or
\* adapter.connect rejected) no adapter is registered for id afterwards.
C7_FailedConnectLeavesNoAdapter ==
  (\/ dmLast.op = "connectDevice" /\ dmLast.out = "errNoProtocol"
   \/ dmLast.op = "connectDevice_rejected")
    => adapters[dmLast.d] = NoAdapter

\* The effect claimed for a connectDevice(d) call on a connected device:
\* the registered adapter is returned, no factory or connect call is made,
\* no status is emitted and the manager's and adapters' state is unchanged.
ReturnsExistingUnchanged(d) ==
  /\ dmLast'.out = "existing"
  /\ dmLast'.ad = adapters[d]
  /\ dmLast'.calls \cap {"factory", "connect", "disconnect"} = {}
  /\ dmLast'.emitted = NoEvents
  /\ UNCHANGED <<configs, factories, adapters, adStatus, adProto, adDev, discPending>>

\* C8 (as stated): connectDevice(id) called while an adapter is registered
\* for id and reports isConnected() returns that adapter and changes nothing.
C8_ConnectedReturnsExisting ==
  [][\A d \in DeviceIds :
       (/\ dmLast'.op = "connectDevice" /\ dmLast'.d = d
        /\ adapters[d] # NoAdapter /\ isConnected(adapters[d]))
         => ReturnsExistingUnchanged(d)]_vars

\* C8 (amended): the same, provided a configuration for id is present; when
\* the configuration has been removed the call fails with the
\* configuration-not-found error, and it still calls nothing, emits nothing
\* and changes nothing.
C8_ConfiguredConnectedReturnsExisting ==
  [][\A d \in DeviceIds :
       (/\ dmLast'.op = "connectDevice" /\ dmLast'.d = d
        /\ adapters[d] # NoAdapter /\ isConnected(adapters[d]))
         => IF configs[d] # NoConfig
            THEN ReturnsExistingUnchanged(d)
            ELSE /\ dmLast'.out = "errNoConfig"
                 /\ dmLast'.calls = {}
                 /\ dmLast'.emitted = NoEvents
                 /\ UNCHANGED <<configs, factories, adapters, adStatus, adProto,
                                adDev, discPending>>]_vars

\* C8 witness: a connectDevice call has just returned the registered,
\* connected adapter of a configured device.
C8_Witness ==
  /\ dmLast.op = "connectDevice" /\ dmLast.out = "existing"
  /\ dmLast.ad # NoAdapter
  /\ adapters[dmLast.d] = dmLast.ad
  /\ isConnected(dmLast.ad)

DelegationOps == {"read", "write", "subscribe", "unsubscribe"}

\* C11: read, write, subscribe and unsubscribe for a deviceId without a
\* registered adapter fail with device-not-connected and call no adapter;
\* with a registered adapter they call exactly the adapter method of the
\* same name with the same arguments, return its outcome and leave the
\* registry, the factories and the configs unchanged.
C11_DelegationIsPure ==
  [][dmLast'.op \in DelegationOps
       => /\ IF adapters[dmLast'.d] = NoAdapter
             THEN /\ dmLast'.out = "errDeviceNotConnected"
                  /\ dmLast'.calls = {}
             ELSE /\ dmLast'.calls = {dmLast'.op}
                  /\ dmLast'.ad = adapters[dmLast'.d]
                  /\ dmLast'.adArgs = dmLast'.args
                  /\ dmLast'.out = dmLast'.adOut
          /\ dmLast'.emitted = NoEvents
          /\ UNCHANGED <<configs, factories, adapters, configOrder>>]_vars

\* C11 witness: a delegated call has failed with device-not-connected while
\* the connectDevice call of that device is still suspended in adapter.connect.
C11_Witness ==
  /\ dmLast.op \in DelegationOps
  /\ dmLast.out = "errDeviceNotConnected"
  /\ adapters[dmLast.d] = NoAdapter
  /\ ConnectsInFlight(dmLast.d) # {}

\* C12: whenever an adapter operation invoked through the manager fails,
\* the caller gets the adapter's error and an error event for the deviceId
\* is published on the event bus.
C12_AdapterErrorsArePublished ==
  dmLast.out \in {"errAdapter", "errConnect"}
    => /\ dmLast.op \in DelegationOps => dmLast.out = dmLast.adOut
       /\ \E i \in 1..Len(dmLast.emitted) :
            /\ dmLast.emitted[i].deviceId = dmLast.d
            /\ "error" \in DOMAIN dmLast.emitted[i]

\* C13: connectAll attempts connectDevice for every configured device
\* whatever happened to the others, and the map it returns has an entry for
\* every configured deviceId: null if that device's connectDevice succeeded,
\* its error otherwise.
C13_ConnectAllCoversEveryConfig ==
  (dmLast.op = "connectAll" /\ dmLast.out = "returned")
    => /\ \A d \in DeviceIds :
            configs[d] # NoConfig
              => /\ caAttempt[d] # "none"
                 /\ caResults[d] # "none"
       /\ \A d \in DeviceIds :
            /\ caResults[d] = "null" <=> caAttempt[d] \in {"ok", "existing"}
            /\ caResults[d] # "null" => caResults[d] = caAttempt[d]

\* C13 witness: connectAll has returned a map in which the first configured
\* device carries its error and the second one null.
C13_Witness ==
  /\ dmLast.op = "connectAll" /\ dmLast.out = "returned"
  /\ Len(configOrder) = 2
  /\ caResults[configOrder[1]] \in {"errConnect", "errNoProtocol"}
  /\ caResults[configOrder[2]] = "null"

\* C14: disconnectAll is best-effort per device: when it settles it has not
\* failed as a whole, and every device registered at the call whose own
\* disconnect did not fail has been disconnected and removed from the registry.
C14_DisconnectAllIsBestEffort ==
  (dmLast.op = "disconnectAll" /\ dmLast.out # "pending")
    => /\ dmLast.out = "ok"
       /\ \A a \in daStarted \ daFailed :
            /\ adapters[adDev[a]] # a
            /\ adStatus[a] = "disconnected"

\* ---------------------------------------------------------------- S7Adapter

\* C15: for a poll subscription at most one tick's read is in flight at any
\* time: a tick's read is issued only after the previous one has completed.
C15_AtMostOneReadInFlight ==
  \A a \in PollAddresses : s7Reads[a] <= 1

\* C16: when two callbacks are subscribed to an address and one of them is
\* unsubscribed, the timer of the address stays and the other callback stays
\* attached (it keeps receiving the events of the address).
C16_OtherCallbackSurvivesUnsubscribe ==
  [][\A a \in PollAddresses :
       (/\ s7Last'.op = "unsubscribe" /\ s7Last'.address = a
        /\ Len(s7SubscriptionCallbacks[a]) >= 2)
         => /\ a \in s7Subscriptions'
            /\ Len(s7SubscriptionCallbacks'[a]) = Len(s7SubscriptionCallbacks[a]) - 1]_vars

\* ------------------------------------------------------------- OpcuaAdapter

\* C17: once unsubscribe(address) has completed, no listener (monitored
\* item) and no map entry for the address remains in the adapter.
C17_UnsubscribeReleasesMechanism ==
  [][(/\ opcCall = "item.terminate"
      /\ opcLast'.op = "unsubscribe" /\ opcLast'.out = "ok")
       => /\ opcArg \notin opcSubscriptions'
          /\ opcItems'[opcArg] = 0]_vars

\* C18: for every address at most one underlying subscription mechanism
\* (monitored item) exists at any time, however many subscribe calls are made.
C18_OneMechanismPerAddress ==
  \A n \in NodeIds : opcItems[n] <= 1

\* ---------------------------------------------------------- ConnectionPool
Holders(r) == {c \in PoolCallers : ppc[c] = "holding" /\ pcur[c] = r}

\* C2: no resource is held by two callers at the same time.
C2_NoResourceHeldTwice ==
  \A r \in Res : Cardinality(Holders(r)) <= 1

\* C3: the pool never holds more than maxConnections resources, hence never
\* more than maxConnections resources are in use.
C3_PoolSizeAtMostMax ==
  /\ Cardinality(pool) <= maxConnections
  /\ Cardinality({r \in pool : inUse[r]}) <= maxConnections

\* C6: release(r) with a non-empty wait queue hands r in the same step to
\* the oldest waiter and r is in use (never idle) after the step; while
\* that waiter holds r no acquire of another caller obtains r.
C6_ReleaseHandsToOldestWaiter ==
  [][/\ \A c \in PoolCallers :
          (ppc[c] = "holding" /\ ppc'[c] = "idle" /\ Len(waitQueue) > 0)
            => /\ ppc'[Head(waitQueue)] = "holding"
               /\ pcur'[Head(waitQueue)] = pcur[c]
               /\ inUse'[pcur[c]]
               /\ waitQueue' = Tail(waitQueue)
     /\ \A w \in handed : \A c \in PoolCallers \ {w} :
          ~(ppc[c] # "holding" /\ ppc'[c] = "holding" /\ pcur'[c] = pcur[w])]_vars

\* ---------------------------------------------------------------- EventBus
\* the event names whose listeners match a data event of (d, a)
DataScopes(d, a) == {DataAddressEvent(d, a), DataDeviceEvent(d), "data"}

\* the names whose listeners match the event of the last emit call
LastScopes ==
  IF busLast.op = "emitData" THEN DataScopes(busLast.d, busLast.a)
  ELSE IF busLast.op = "emitError" THEN {"error"}
  ELSE IF busLast.op = "emitStatus" THEN {"status"}
  ELSE {}

WasDelivered(n, k) ==
  \E i \in 1..Len(busLast.delivered) : busLast.delivered[i] = <<n, k>>

\* C4: emitData(e) delivers e to every callback registered for the exact
\* address, for the device and for all data.
C4_EmitDataReachesAllScopes ==
  busLast.op = "emitData"
    => \A n \in DataScopes(busLast.d, busLast.a) :
         \A i \in 1..Len(listeners[n]) : WasDelivered(n, listeners[n][i])

\* C5: when a callback throws during an emit, every other callback that
\* matches the event still receives it and the emit call returns normally.
C5_ThrowingSubscriberIsIsolated ==
  (/\ busLast.op \in {"emitData", "emitError", "emitStatus"}
   /\ \E i \in 1..Len(busLast.delivered) : busLast.delivered[i][2] \in Throwing)
    => /\ busLast.result # "threw"
       /\ \A n \in LastScopes :
            \A i \in 1..Len(listeners[n]) : WasDelivered(n, listeners[n][i])

\* ------------------------------------------- OpcuaAdapter under the manager
\* C10: disconnect never fails: whatever cleanup step throws, a completed
\* disconnectDevice has resolved without error and the registry entry is
\* removed, and the adapter whose disconnect it called is 'disconnected'.
C10_DisconnectNeverFails ==
  (opcLast.op = "disconnectDevice" /\ opcLast.out # "pending")
    => /\ opcLast.out \in {"ok", "noop"}
       /\ ~opcRegistered
       /\ opcLast.out = "ok" => opcStatus = "disconnected"
\* C19: every resource the validator reports invalid, by returning false or
\* by throwing, is not handed out and is evicted from the pool at once.
C19_InvalidResourceIsEvicted ==
  [][\A c \in PoolCallers :
       (/\ ppc[c] = "validating"
        /\ ppc'[c] # "validating" \/ pcur'[c] # pcur[c]
        /\ ~(ppc'[c] = "holding" /\ pcur'[c] = pcur[c]))
         => pcur[c] \notin pool']_vars

\* C20: acquire enqueues a caller only when the pool is at maxConnections;
\* the queue holds exactly the waiting callers, each once (a caller rejected
\* by its timeout or by shutdown has left the queue and cannot be handed a
\* resource); every enqueued caller is eventually settled, that is, no
\* caller stays waiting forever.
C20_QueuedCallersAreSettled ==
  /\ [](/\ \A c \in PoolCallers : ppc[c] = "waiting" <=> c \in Queued
        /\ Cardinality(Queued) = Len(waitQueue))
  /\ [][\A c \in PoolCallers :
          (c \notin Queued /\ ppc'[c] = "waiting")
            => Cardinality(pool') >= maxConnections]_vars
  /\ \A c \in PoolCallers : []<>(ppc[c] # "waiting")

\* C20 witness: a queued caller has been handed a resource by release while
\* another caller is still waiting in the queue.
C20_Witness ==
  /\ Len(waitQueue) > 0
  /\ \E c \in handed : ppc[c] = "holding"

\* C21: a cleanup run removes only a resource that is not in use and has
\* been idle longer than idleTimeoutMs, and its removal never leaves fewer
\* than minConnections resources in the pool.
C21_CleanupKeepsMinAndInUse ==
  [][\A k \in Cleanups :
       (clState[k] = "destroying" /\ clCur[k] \in pool /\ clCur[k] \notin pool'
        /\ (clState'[k] # "destroying" \/ clCur'[k] # clCur[k]))
         => /\ ~inUse[clCur[k]]
            /\ stale[clCur[k]]
            /\ Cardinality(pool') >= minConnections]_vars

\* C22: when shutdown() completes the wait queue is empty, no caller is
\* waiting, the pool holds no resource and the cleanup timer is stopped.
C22_ShutdownLeavesNothing ==
  [][(sdState # "resolved" /\ sdState' = "resolved")
       => /\ waitQueue' = << >>
          /\ \A c \in PoolCallers : ppc'[c] # "waiting"
          /\ pool' = {}
          /\ ~cleanupInterval']_vars

\* C23: once shutdown() has been called, an acquire() that is called fails
\* at once (it neither validates, creates nor queues) and the pool gets no
\* new resource.
C23_UnusableAfterShutdown ==
  [][sdState # "idle"
       => /\ \A c \in PoolCallers : ppc[c] = "idle" => ppc'[c] = "idle"
          /\ pool' \subseteq pool]_vars

\* C30: when the read of a tick settles, its result is delivered to every
\* callback the address had when the tick started, also when unsubscribe
\* was called while the read was in flight; after unsubscribe no new tick
\* starts.
C30_InFlightReadIsDelivered ==
  [][\A a \in PollAddresses :
       /\ (s7Reads'[a] < s7Reads[a])
            => \E i \in 1..Len(s7Started[a]) :
                 /\ s7Started'[a] = RemoveAt(s7Started[a], i)
                 /\ \A j \in 1..Len(s7Started[a][i]) :
                      \E m \in 1..Len(s7Last'.delivered) :
                        s7Last'.delivered[m] = s7Started[a][i][j]
       /\ (s7Reads'[a] > s7Reads[a]) => a \in s7Subscriptions]_vars

\* C24: connect() moves the state to 'connecting'; when it resolves the
\* state is 'connected'; when it has rejected the state is 'error' and
\* stays 'error' until connect or disconnect is called again.
C24_ConnectOutcomeMatchesState ==
  [][/\ (s7ConnectCall # "waiting" /\ s7ConnectCall' = "waiting")
          => s7ConnectionStatus' = "connecting"
     /\ (s7ConnectCall # "resolved" /\ s7ConnectCall' = "resolved")
          => s7ConnectionStatus' = "connected"
     /\ s7ConnectCall' = "rejected" => s7ConnectionStatus' = "error"]_vars

\* C25: isConnected() is true only while the transport of the adapter is
\* live.
C25_IsConnectedMeansLive == s7IsConnected => s7LinkUp

\* C26: a read or a write called while the adapter is not connected fails
\* with the not-connected error, issues no transport operation and
\* creates no subscription.
C26_NotConnectedFails ==
  (mqLast.op \in {"read", "write"} /\ ~mqLast.connected)
    => /\ mqLast.out = "errNotConnected"
       /\ mqLast.transport = {}
       /\ ~mqLast.subscribed

\* C27: once no read and no write is in flight, readCount is the number
\* of read calls made and writeCount the number of write calls made.
C27_CountsEveryAttempt ==
  /\ s7ReadWaiting = 0 => s7ReadCount = s7ReadCalls
  /\ s7WriteWaiting = 0 => s7WriteCount = s7WriteCalls

\* C28: with reconnect.maxAttempts = 3, initialDelayMs = 100 and
\* backoffMultiplier = 2, the k-th retry of a connection that keeps failing
\* comes initialDelayMs * backoffMultiplier^(k-1) ms (at most maxDelayMs)
\* after the failure before it, and there is no retry after maxAttempts
C28_ReconnectBackoff ==
  /\ Len(mqRetryDelays) <= ReconnectConfig.maxAttempts
  /\ \A k \in 1..Len(mqRetryDelays) :
       LET delay == ReconnectConfig.initialDelayMs
                      * ReconnectConfig.backoffMultiplier ^ (k - 1)
       IN  mqRetryDelays[k] = IF delay < ReconnectConfig.maxDelayMs
                              THEN delay ELSE ReconnectConfig.maxDelayMs

\* C29: the list getAllDeviceStatuses (device_list) returns has a status for
\* every configured device, connected or not
C29_ListCoversConfiguredDevices ==
  dmLast.op = "getAllDeviceStatuses" =>
    \A d \in DeviceIds :
      configs[d] # NoConfig => \E st \in dmStatuses : st.deviceId = d

C32_OneEventPerCallback ==
  (s7Last.op = "tick_readSettled" /\ s7Last.address \in s7Subscriptions)
    => LET callbacks == s7SubscriptionCallbacks[s7Last.address]
       IN  /\ Len(s7Last.events) = Len(callbacks)
           /\ \A i \in 1..Len(callbacks) :
                /\ s7Last.events[i].callback = callbacks[i]
                /\ s7Last.events[i].quality = IF s7Last.readOk THEN "good" ELSE "bad"

\* C33: every address in the subscription map of the adapter has at least
\* one callback, also while the broker subscription is being established
\* and after it has failed
C33_NoEntryWithoutCallback ==
  \A t \in mqSubscriptions : Len(mqCallbacks[t]) > 0

\* C34: a read without cached value leaves nothing behind once it has
\* settled: no callback of a settled read stays in a subscription entry, and
\* a message counts a read only for a read it resolves
C34_ReadSubscribesTransiently ==
  /\ \A t \in Topics : CountIn(mqCallbacks[t], {"done"}) = 0
  /\ mqLast.op = "message" => mqLast.counted = mqLast.settled

\* C35: every adapter that is connected and has not been disconnected is the
\* adapter registered for its deviceId, so there is at most one per deviceId
C35_ConnectedAdapterIsRegistered ==
  \A a \in AdapterIds : adStatus[a] = "connected" => adapters[adDev[a]] = a

\* C39: for each deviceId the status events of the manager alternate,
\* starting with 'connected'. The manager emits 'connected' only where it
\* stores the adapter and 'disconnected' only where it deletes the entry,
\* so the last status emitted for a deviceId is 'connected' exactly while
\* the deviceId has an entry: a step may emit 'connected' only for a
\* deviceId without entry and 'disconnected' only for one with an entry
C39_StatusEventsAlternate ==
  [][\A i \in 1..Len(dmLast'.emitted) :
       LET e == dmLast'.emitted[i]
       IN  /\ e.status = "connected" => adapters[e.deviceId] = NoAdapter
           /\ e.status = "disconnected" => adapters[e.deviceId] # NoAdapter]_vars

\* C36: a resource handed to a caller, by acquire or by release through
\* the wait queue, is held in the pool and is not being destroyed by a
\* cleanup run or by shutdown
C36_HandedResourceIsLive ==
  [][\A c \in PoolCallers :
       (ppc'[c] = "holding" /\ (ppc[c] # "holding" \/ pcur'[c] # pcur[c]))
         => /\ pcur'[c] \in pool'
            /\ \A k \in Cleanups : ~(clState'[k] = "destroying" /\ clCur'[k] = pcur'[c])
            /\ ~(sdState' = "destroying" /\ sdCur' = pcur'[c])]_vars

\* C37: a data event of device d and address a is delivered only to
\* callbacks whose subscribe call asked for d, for d and a, or for all data,
\* also when a device id contains ':'
C37_OnlyMatchingSubscribersReceive ==
  busLast.op = "emitData"
    => \A i \in 1..Len(busLast.delivered) :
         LET f == filters[busLast.delivered[i][1]][i]
         IN  /\ f.deviceId \in {busLast.d, "any"}
             /\ f.address \in {busLast.a, "any"}

\* C38: emitError never throws; without an error subscriber it returns false
C38_EmitErrorNeverThrows ==
  busLast.op = "emitError"
    => /\ busLast.result # "threw"
       /\ listeners["error"] = << >> => busLast.result = "false"

\* C40: after the client has reconnected on its own the adapter gets back
\* to 'connected' and isConnected() is true, unless the transport drops
\* again or the adapter is disconnected first
C40_ReconnectRestoresConnected ==
  (mqLast.op = "reconnected" /\ mqHandlers)
    ~> (mqIsConnected \/ ~mqClientConnected \/ mqClient = "null")

====
